---- MODULE Spec2Model ----
(***************************************************************************)
(* ModSync: reconciliation of a local `mods` directory against a manifest. *)
(* The model follows src/src/modmanager/lib.rs (ModManager, SyncProgress,  *)
(* send_event) and the part of src/src/main.rs that creates the progress   *)
(* state and the event channel.                                            *)
(*                                                                         *)
(* sync_all_from_entries runs as one task.  Its entries are futures kept   *)
(* in a buffer_unordered(8) pool; the task polls one future at a time, so  *)
(* the code of an entry between two awaits is not interleaved with the     *)
(* code of another entry.  The awaits are the two network awaits of        *)
(* download_mod.  Observers (the UI, the CLI loop) run on other threads    *)
(* and read the progress state between any two atomic operations, so the   *)
(* completion of an entry is modelled step by step.                        *)
(***************************************************************************)
EXTENDS Integers, Sequences, FiniteSets, TLC

VARIABLES
    splash,     \* ModSyncApp: the splash state and the events it has drained
    main,       \* main: its arguments, its position and the last line it printed
    text,       \* load_mod_entries: the lines of the manifest text, and how
                \* many of them the parser has consumed
    source,     \* main's manifest source: which argument, and whether it loads
    manifest,   \* mod_entries: the parsed manifest, a sequence of ModEntry
    modsDir,    \* whether <mods_dir>/mods exists
    fs,         \* the files of the mods folder: filename -> content or NoFile
    fs0,        \* the mods folder as it was when the current run started
    task,       \* position of sync_all_from_entries
    pc,         \* position of each entry's handle_entry future
    cur,        \* the entry whose future the task is polling (0: none)
    result,     \* the local `result` of each handle_entry: kind and message
    bytes,      \* the local `bytes` of each download_mod
    ops,        \* per entry: how many fetches, writes, deletes, digests it did
    results,    \* the Vec collected from the stream, in completion order
    report,     \* the SyncReport, once assembled
    progress,   \* SyncProgress: total and the five atomic counters
    last_mod,   \* SyncProgress.last_mod: Option<String>
    event_tx,   \* whether an event sender was supplied (Some / None)
    rx_alive,   \* whether the receiving side of the channel still exists
    events,     \* the events accepted by the channel, in send order
    run,        \* which run of the program this is
    prev        \* how the previous run ended and how many files it changed

vars == <<splash, main, text, source, manifest, modsDir, fs, fs0, task, pc, cur, result, bytes, ops,
          results, report, progress, last_mod, event_tx, rx_alive, events,
          run, prev>>

---------------------------------------------------------------------------
(* Bounds of the model *)

MaxEntries == 2

MaxRuns == 2

(* The longest line of which every spelling is parsed *)
MaxLineLen == 5

(* The longest manifest text, in lines *)
MaxLines == 3

(* The long manifests have PoolLimit + PoolExtra entries *)
PoolExtra == 1

(* Program constant: the parallelism limit of buffer_unordered *)
PoolLimit == 8

---------------------------------------------------------------------------
(* Strings are sequences of one-character strings *)

Upper == <<"A","B","C","D","E","F","G","H","I","J","K","L","M",
           "N","O","P","Q","R","S","T","U","V","W","X","Y","Z">>

Lower == <<"a","b","c","d","e","f","g","h","i","j","k","l","m",
           "n","o","p","q","r","s","t","u","v","w","x","y","z">>

ToAsciiLowercase(c) ==
    IF \E k \in 1..26 : Upper[k] = c
    THEN Lower[CHOOSE k \in 1..26 : Upper[k] = c]
    ELSE c

EqIgnoreAsciiCase(s, t) ==
    /\ Len(s) = Len(t)
    /\ \A k \in 1..Len(s) : ToAsciiLowercase(s[k]) = ToAsciiLowercase(t[k])

Some(x) == <<x>>

None == <<>>

IsSome(o) == Len(o) = 1

Unwrap(o) == o[1]

---------------------------------------------------------------------------
(* The values of the model *)

REMOVE == <<"R","E","M","O","V","E">>

(* The categories of the manifests: a removal, spelled in lower case, and *)
(* REQUIRED                                                               *)
Categories == { <<"r","e","m","o","v","e">>,
                <<"R","E","Q","U","I","R","E","D">> }

Filenames == { <<"a">>, <<"b">> }

Urls == { <<"u">> }

NoFile == "NoFile"

Truncated == "truncated"

Contents == { "x", "y" }

(* sha256_file: the lowercase hex digest of a file's content.  The digest   *)
(* is injective on the contents of the model.                               *)
HexDigest(content) ==
    CASE content = "x" -> <<"a","1">>
      [] content = "y" -> <<"b","2">>
      [] OTHER         -> <<"e","3">>

(* Expected digests: none, or the digest of "x" written in upper case *)
Digests == { None, Some(<<"A","1">>) }

(* All spellings the resolver is run on one by one: REMOVE and REQUIRED in *)
(* three letter cases, another label and the empty label; the digest of   *)
(* "x" in both letter cases and the digest of "y"                         *)
REQUIRED == <<"R","E","Q","U","I","R","E","D">>

AnyCategories ==
    { REMOVE, <<"r","e","m","o","v","e">>, <<"R","e","m","o","v","E">>,
      REQUIRED, <<"r","e","q","u","i","r","e","d">>,
      <<"O","p","t","i","o","n","a","l">>, <<>> }

AnyDigests ==
    { None, Some(<<"A","1">>), Some(<<"a","1">>), Some(<<"B","2">>) }

AnyEntries == [category : AnyCategories, filename : Filenames,
               url : Urls, sha256 : AnyDigests]

Entries == [category : Categories, filename : Filenames,
            url : Urls, sha256 : Digests]

Kinds == {"Downloaded", "Unchanged", "Removed", "Failed"}

NoResult == [kind |-> "none", msg |-> ""]

NoOps == [fetch |-> 0, write |-> 0, delete |-> 0, digest |-> 0]

NoBytes == "NoBytes"

EmptyReport == [downloaded |-> <<>>, unchanged |-> <<>>,
                removed |-> <<>>, failed |-> <<>>]

(* The manifest source of main: --modsfile, --modsurl or neither, and      *)
(* whether its text can be obtained (the file read, the list fetched)      *)
Sources ==
    { [given |-> "file", obtained |-> TRUE],
      [given |-> "file", obtained |-> FALSE],
      [given |-> "url",  obtained |-> TRUE],
      [given |-> "url",  obtained |-> FALSE],
      [given |-> "none", obtained |-> FALSE] }

(* The source of a run whose manifest main has loaded *)
LoadedSource == [given |-> "file", obtained |-> TRUE]

(* main before line 79: no SyncProgress exists *)
NoProgress == [created |-> FALSE]

---------------------------------------------------------------------------
(* The manifest parser: src/src/types/types.rs *)

(* The white space that str::trim removes, as far as the model's lines     *)
(* hold it                                                                 *)
Whitespace == {" ", "\t", "\r"}

RECURSIVE TrimStart(_)
TrimStart(str) ==
    IF str /= <<>> /\ Head(str) \in Whitespace
    THEN TrimStart(Tail(str))
    ELSE str

RECURSIVE TrimEnd(_)
TrimEnd(str) ==
    IF str /= <<>> /\ str[Len(str)] \in Whitespace
    THEN TrimEnd(SubSeq(str, 1, Len(str) - 1))
    ELSE str

(* str::trim *)
Trim(str) == TrimEnd(TrimStart(str))

(* str.split('|').collect(): at least one part, empty parts are kept *)
RECURSIVE Split(_)
Split(str) ==
    IF \E k \in 1..Len(str) : str[k] = "|"
    THEN LET k == CHOOSE k \in 1..Len(str) :
                    str[k] = "|" /\ \A j \in 1..(k - 1) : str[j] /= "|"
         IN  <<SubSeq(str, 1, k - 1)>> \o Split(SubSeq(str, k + 1, Len(str)))
    ELSE <<str>>

(* Mutant: the line is tested for a comment before it is trimmed *)
ParseLineUntrimmedComment(line) ==
    IF Trim(line) = <<>> \/ Head(line) = "#"
    THEN None
    ELSE LET parts == Split(Trim(line)) IN
         IF Len(parts) < 3
         THEN None
         ELSE Some([category |-> parts[1], filename |-> parts[2],
                    url |-> parts[3],
                    sha256 |-> IF Len(parts) >= 4 THEN Some(parts[4])
                               ELSE None])

(* Mutant: only the start of the line is trimmed *)
ParseLineTrimmingStart(line) ==
    IF TrimStart(line) = <<>> \/ Head(TrimStart(line)) = "#"
    THEN None
    ELSE LET parts == Split(TrimStart(line)) IN
         IF Len(parts) < 3
         THEN None
         ELSE Some([category |-> parts[1], filename |-> parts[2],
                    url |-> parts[3],
                    sha256 |-> IF Len(parts) >= 4 THEN Some(parts[4])
                               ELSE None])

(* Mutant: every field is trimmed *)
ParseLineTrimmingFields(line) ==
    IF Trim(line) = <<>> \/ Head(Trim(line)) = "#"
    THEN None
    ELSE LET parts == Split(Trim(line)) IN
         IF Len(parts) < 3
         THEN None
         ELSE Some([category |-> Trim(parts[1]), filename |-> Trim(parts[2]),
                    url |-> Trim(parts[3]),
                    sha256 |-> IF Len(parts) >= 4 THEN Some(Trim(parts[4]))
                               ELSE None])

(* Mutant: an empty fourth field counts as no digest *)
ParseLineEmptyDigestAbsent(line) ==
    IF Trim(line) = <<>> \/ Head(Trim(line)) = "#"
    THEN None
    ELSE LET parts == Split(Trim(line)) IN
         IF Len(parts) < 3
         THEN None
         ELSE Some([category |-> parts[1], filename |-> parts[2],
                    url |-> parts[3],
                    sha256 |-> IF Len(parts) >= 4 /\ parts[4] /= <<>>
                               THEN Some(parts[4])
                               ELSE None])

(* parse_line: types.rs 23-41 *)
ParseLine(line) ==
    IF Trim(line) = <<>> \/ Head(Trim(line)) = "#"
    THEN None
    ELSE LET parts == Split(Trim(line)) IN
         IF Len(parts) < 3
         THEN None
         ELSE Some([category |-> parts[1], filename |-> parts[2],
                    url |-> parts[3],
                    sha256 |-> IF Len(parts) >= 4 THEN Some(parts[4])
                               ELSE None])

(* The characters of the lines that are enumerated in full *)
Chars == {" ", "#", "|", "a"}

ShortLines == UNION { [1..n -> Chars] : n \in 0..MaxLineLen }

(* Lines of a manifest: blank, comment, too few fields, three, four and    *)
(* five fields, empty fields                                               *)
SampleLines ==
    { <<>>,
      <<" "," ">>,
      <<" ","#"," ","a","|","b","|","c">>,
      <<"#">>,
      <<"a">>,
      <<"a","|","b">>,
      <<" ","a","|","b","|","c"," ">>,
      <<"A","|","b","|","c","|","d">>,
      <<"a"," ","|","b","|"," ","c","|","d">>,
      <<"a"," ","|","b","|","c","|","d"," ","|","e">>,
      <<"|","|">>,
      <<"|","#","|">> }

(* A manifest text is one short line, or up to MaxLines sample lines *)
Texts ==
    { <<l>> : l \in ShortLines }
    \cup UNION { [1..n -> SampleLines] : n \in 0..MaxLines }

(* No text: the manifest is already parsed *)
NoText == [lines |-> <<>>, parsed |-> 0]

(* Before the first run there is no previous run *)
NoRun == [end |-> "none", changes |-> 0]

N == Len(manifest)

---------------------------------------------------------------------------
(* Helpers *)

Exists(f) == fs[f] /= NoFile

(* Mutant: the category is compared with == *)
IsRemoveExact(e) == e.category = REMOVE

(* Mutant: every entry that is not REQUIRED (ModEntry::is_required) is a   *)
(* removal                                                                 *)
IsRemoveUnlessRequired(e) == ~EqIgnoreAsciiCase(e.category, REQUIRED)

(* entry.category.eq_ignore_ascii_case("REMOVE") *)
IsRemove(e) == EqIgnoreAsciiCase(e.category, REMOVE)

(* Mutant: the digests are compared with == *)
DigestMatchesExact(content, expected) == HexDigest(content) = expected

(* actual.eq_ignore_ascii_case(expected) *)
DigestMatches(content, expected) ==
    EqIgnoreAsciiCase(HexDigest(content), expected)

CounterOf(kind) ==
    CASE kind = "Downloaded" -> "downloaded"
      [] kind = "Unchanged"  -> "unchanged"
      [] kind = "Removed"    -> "removed"
      [] kind = "Failed"     -> "failed"

(* SyncProgress::new(total) *)
NewProgress(total) ==
    [total |-> total, processed |-> 0, downloaded |-> 0,
     unchanged |-> 0, removed |-> 0, failed |-> 0]

(* SyncProgress::processed(): the sum of the four outcome counters *)
Processed(p) == p.downloaded + p.unchanged + p.removed + p.failed

(* The futures held by buffer_unordered: admitted and not yet returned *)
InFlight == { i \in 1..N : pc[i] \notin {"queued", "done"} }

Queued == { i \in 1..N : pc[i] = "queued" }

Least(S) == CHOOSE i \in S : \A j \in S : i <= j

(* Mutant: the pool admits one future more than its limit *)
CanAdmitOneMore ==
    /\ Queued /= {}
    /\ Cardinality(InFlight) <= PoolLimit

(* buffer_unordered fills its pool from the stream before it polls *)
CanAdmit ==
    /\ Queued /= {}
    /\ Cardinality(InFlight) < PoolLimit

(* The task is between two polls and the pool is as full as it can be *)
Idle ==
    /\ task = "stream"
    /\ cur = 0
    /\ ~CanAdmit

(* Mutant: the outcome step increments the processed field, not the       *)
(* outcome counter                                                         *)
DecideCountingProcessedFirst(i, kind, msg) ==
    /\ result' = [result EXCEPT ![i] = [kind |-> kind, msg |-> msg]]
    /\ progress' = [progress EXCEPT !.processed = @ + 1]
    /\ pc' = [pc EXCEPT ![i] = "counted"]
    /\ cur' = i

(* Mutant: a failure is counted where it happens and again by its caller *)
DecideCountingFailuresTwice(i, kind, msg) ==
    /\ result' = [result EXCEPT ![i] = [kind |-> kind, msg |-> msg]]
    /\ progress' = [progress EXCEPT ![CounterOf(kind)] =
                        IF kind = "Failed" THEN @ + 2 ELSE @ + 1]
    /\ pc' = [pc EXCEPT ![i] = "counted"]
    /\ cur' = i

(* handle_entry: the outcome is decided, the outcome counter incremented *)
Decide(i, kind, msg) ==
    /\ result' = [result EXCEPT ![i] = [kind |-> kind, msg |-> msg]]
    /\ progress' = [progress EXCEPT ![CounterOf(kind)] = @ + 1]
    /\ pc' = [pc EXCEPT ![i] = "counted"]
    /\ cur' = i

DidOp(i, op) == ops' = [ops EXCEPT ![i][op] = @ + 1]

(* send_event: a send to a dropped receiver is ignored *)
Sent(ev) ==
    IF event_tx /\ rx_alive THEN Append(events, ev) ELSE events

EntryEvent(i) ==
    [kind |-> result[i].kind, filename |-> manifest[i].filename,
     error |-> result[i].msg]

(* EntryResult: the value a handle_entry future returns *)
EntryResult(i) ==
    [kind |-> result[i].kind, entry |-> manifest[i], msg |-> result[i].msg]

OfKind(rs, kind) == SelectSeq(rs, LAMBDA r : r.kind = kind)

EntriesOf(rs) == [k \in 1..Len(rs) |-> rs[k].entry]

FailuresOf(rs) == [k \in 1..Len(rs) |-> <<rs[k].entry, rs[k].msg>>]

(* Mutant: the buckets are filled in the order of the manifest *)
BuildReportInManifestOrder(rs) ==
    LET sorted == [k \in 1..Len(rs) |->
                     CHOOSE r \in {rs[n] : n \in 1..Len(rs)} :
                        r.entry = manifest[k]]
    IN  [downloaded |-> EntriesOf(OfKind(sorted, "Downloaded")),
         unchanged  |-> EntriesOf(OfKind(sorted, "Unchanged")),
         removed    |-> EntriesOf(OfKind(sorted, "Removed")),
         failed     |-> FailuresOf(OfKind(sorted, "Failed"))]

(* Mutant: the failed results are left out of the report *)
BuildReportWithoutFailed(rs) ==
    [downloaded |-> EntriesOf(OfKind(rs, "Downloaded")),
     unchanged  |-> EntriesOf(OfKind(rs, "Unchanged")),
     removed    |-> EntriesOf(OfKind(rs, "Removed")),
     failed     |-> <<>>]

(* The four buckets of the report, each in the order of `results` *)
BuildReport(rs) ==
    [downloaded |-> EntriesOf(OfKind(rs, "Downloaded")),
     unchanged  |-> EntriesOf(OfKind(rs, "Unchanged")),
     removed    |-> EntriesOf(OfKind(rs, "Removed")),
     failed     |-> FailuresOf(OfKind(rs, "Failed"))]

(* check_and_download, the file exists: rd is whether fs::read succeeds *)
CheckExisting(e, rd) ==
    IF IsSome(e.sha256)
    THEN IF ~rd
         THEN [kind |-> "Failed", msg |-> "read", digest |-> 1]
         ELSE IF DigestMatches(fs[e.filename], Unwrap(e.sha256))
              THEN [kind |-> "Unchanged", msg |-> "", digest |-> 1]
              ELSE [kind |-> "Failed", msg |-> "mismatch", digest |-> 1]
    ELSE [kind |-> "Unchanged", msg |-> "", digest |-> 0]

(* Mutant: the error of fs::write is dropped instead of returned *)
WriteAndVerifyIgnoringWriteError(e, b, wr, rd) ==
    LET file == IF wr = "ok" THEN b
                ELSE IF wr = "failed" THEN fs[e.filename] ELSE Truncated
    IN  IF IsSome(e.sha256)
        THEN IF ~rd
             THEN [file |-> file, kind |-> "Failed", msg |-> "read",
                   digest |-> 1]
             ELSE IF DigestMatches(file, Unwrap(e.sha256))
                  THEN [file |-> file, kind |-> "Downloaded", msg |-> "",
                        digest |-> 1]
                  ELSE [file |-> file, kind |-> "Failed", msg |-> "mismatch",
                        digest |-> 1]
        ELSE [file |-> file, kind |-> "Downloaded", msg |-> "", digest |-> 0]

(* Mutant: a download whose digest does not match is deleted again *)
WriteAndVerifyWithRollback(e, b, wr, rd) ==
    IF wr /= "ok"
    THEN [file |-> IF wr = "failed" THEN fs[e.filename] ELSE Truncated,
          kind |-> "Failed", msg |-> "write", digest |-> 0]
    ELSE IF IsSome(e.sha256)
         THEN IF ~rd
              THEN [file |-> b, kind |-> "Failed", msg |-> "read",
                    digest |-> 1]
              ELSE IF DigestMatches(b, Unwrap(e.sha256))
                   THEN [file |-> b, kind |-> "Downloaded", msg |-> "",
                         digest |-> 1]
                   ELSE [file |-> NoFile, kind |-> "Failed",
                         msg |-> "mismatch", digest |-> 1]
         ELSE [file |-> b, kind |-> "Downloaded", msg |-> "", digest |-> 0]

(* download_mod after the body b has arrived: fs::write, then the digest   *)
(* of the written file.  wr is how fs::write ends, rd whether fs::read of  *)
(* the written file succeeds.                                              *)
WriteAndVerify(e, b, wr, rd) ==
    IF wr /= "ok"
    THEN [file |-> IF wr = "failed" THEN fs[e.filename] ELSE Truncated,
          kind |-> "Failed", msg |-> "write", digest |-> 0]
    ELSE IF IsSome(e.sha256)
         THEN IF ~rd
              THEN [file |-> b, kind |-> "Failed", msg |-> "read",
                    digest |-> 1]
              ELSE IF DigestMatches(b, Unwrap(e.sha256))
                   THEN [file |-> b, kind |-> "Downloaded", msg |-> "",
                         digest |-> 1]
                   ELSE [file |-> b, kind |-> "Failed", msg |-> "mismatch",
                         digest |-> 1]
         ELSE [file |-> b, kind |-> "Downloaded", msg |-> "", digest |-> 0]

WriteEnds == {"ok", "failed", "failed_truncated"}

---------------------------------------------------------------------------
(* The initial states: main has parsed the manifest, created the progress  *)
(* state and the channel, and spawned sync_all_from_entries.               *)

(* The manifests: no line is repeated word for word, and the first line    *)
(* names file "a" (the two file names are interchangeable)                 *)
Manifests ==
    { m \in UNION { [1..n -> Entries] : n \in 0..MaxEntries } :
        /\ \A i, j \in DOMAIN m : m[i] = m[j] => i = j
        /\ m /= <<>> => m[1].filename = <<"a">> }

Folders == [Filenames -> Contents \cup {NoFile}]

(* main.rs 36-56 and 59-131: the arguments that matter here (--hash FILE,   *)
(* --cli), main's position, and the last line main printed.  The          *)
(* positions: "args" (60), "load" (69-97), "ui" (111-117, inside          *)
(* run_native), "cli" and "sleep" (119-127, the polling loop and its      *)
(* sleep), "exiting" (130), "done" (main returned Ok) and "failed" (main  *)
(* returned an error or panicked).                                        *)
(* ModSyncApp::new, gui.rs 42-53: the splash is processing, holds no      *)
(* report, has handed none over and has taken no event from the channel   *)
NoSplash == [finished |-> FALSE, has_changes |-> FALSE, report |-> None,
             sent |-> None, read |-> 0]

NoOutput == [line |-> "none", digest |-> <<>>, processed |-> 0, total |-> 0]

HashLine(d) == [NoOutput EXCEPT !.line = "hash", !.digest = d]

ModsDirLine == [NoOutput EXCEPT !.line = "mods directory"]

LoadedLine(n) == [NoOutput EXCEPT !.line = "loaded", !.total = n]

ProgressLine(p, t) ==
    [NoOutput EXCEPT !.line = "progress", !.processed = p, !.total = t]

ExitingLine == [NoOutput EXCEPT !.line = "exiting"]

MainAt(position) ==
    [pc |-> position, hash |-> None, cli |-> TRUE, stdout |-> NoOutput]

StartOfRun(m) ==
    /\ task = "start"
    /\ pc = [i \in 1..Len(m) |-> "queued"]
    /\ cur = 0
    /\ result = [i \in 1..Len(m) |-> NoResult]
    /\ bytes = [i \in 1..Len(m) |-> NoBytes]
    /\ ops = [i \in 1..Len(m) |-> NoOps]
    /\ results = <<>>
    /\ report = EmptyReport
    /\ progress = NewProgress(Len(m))
    /\ last_mod = None
    /\ events = <<>>

Init ==
    /\ splash = NoSplash
    /\ manifest \in Manifests
    /\ modsDir \in BOOLEAN
    /\ fs \in Folders
    /\ ~modsDir => \A f \in Filenames : fs[f] = NoFile
    /\ fs0 = fs
    /\ StartOfRun(manifest)
    /\ event_tx = TRUE
    /\ rx_alive = TRUE
    /\ run = 1
    /\ prev = NoRun
    /\ source = LoadedSource
    /\ text = NoText
    /\ main = MainAt("cli")

(* Long manifests, which fill the pool: removals of one file and, at one   *)
(* place at most, a download of the other                                  *)
RemoveA == [category |-> <<"r","e","m","o","v","e">>, filename |-> <<"a">>,
            url |-> <<"u">>, sha256 |-> None]

RequireB == [category |-> <<"R","E","Q","U","I","R","E","D">>,
             filename |-> <<"b">>, url |-> <<"u">>, sha256 |-> None]

PoolManifests ==
    { m \in [1..(PoolLimit + PoolExtra) -> {RemoveA, RequireB}] :
        \A i, j \in DOMAIN m : m[i] = RequireB /\ m[j] = RequireB => i = j }

InitPool ==
    /\ splash = NoSplash
    /\ manifest \in PoolManifests
    /\ modsDir \in BOOLEAN
    /\ fs \in [Filenames -> {NoFile, "x"}]
    /\ ~modsDir => \A f \in Filenames : fs[f] = NoFile
    /\ fs0 = fs
    /\ StartOfRun(manifest)
    /\ event_tx = TRUE
    /\ rx_alive = TRUE
    /\ run = 1
    /\ prev = NoRun
    /\ source = LoadedSource
    /\ text = NoText
    /\ main = MainAt("cli")

---------------------------------------------------------------------------
(* sync_all_from_entries *)

(* Mutant: the error of create_dir_all is dropped and the run goes on *)
EnsureModsFolderOrGoOn ==
    /\ task = "start"
    /\ \E created \in BOOLEAN :
          /\ modsDir' = (modsDir \/ created)
          /\ task' = "stream"
    /\ UNCHANGED <<splash, main, text, source, manifest, fs, fs0, pc, cur, result, bytes, ops, results,
                   report, progress, last_mod, event_tx, rx_alive, events,
                   run, prev>>

(* lib.rs 124-128: create the mods folder when it is missing *)
EnsureModsFolder ==
    /\ task = "start"
    /\ \E created \in BOOLEAN :
          IF modsDir \/ created
          THEN modsDir' = TRUE /\ task' = "stream"
          ELSE modsDir' = FALSE /\ task' = "aborted"
    /\ UNCHANGED <<splash, main, text, source, manifest, fs, fs0, pc, cur, result, bytes, ops, results,
                   report, progress, last_mod, event_tx, rx_alive, events,
                   run, prev>>

(* buffer_unordered(8): the next entry of the stream becomes a future of   *)
(* the pool                                                                *)
(* Mutant: the pool takes the last entry of the manifest first *)
AdmitLastQueued ==
    /\ task = "stream"
    /\ cur = 0
    /\ CanAdmit
    /\ pc' = [pc EXCEPT ![CHOOSE i \in Queued : \A j \in Queued : j <= i] =
                             "admitted"]
    /\ UNCHANGED <<splash, main, text, source, manifest, modsDir, fs, fs0, task, cur, result, bytes, ops,
                   results, report, progress, last_mod, event_tx, rx_alive,
                   events, run, prev>>

Admit ==
    /\ task = "stream"
    /\ cur = 0
    /\ CanAdmit
    /\ pc' = [pc EXCEPT ![Least(Queued)] = "admitted"]
    /\ UNCHANGED <<splash, main, text, source, manifest, modsDir, fs, fs0, task, cur, result, bytes, ops,
                   results, report, progress, last_mod, event_tx, rx_alive,
                   events, run, prev>>

(* Mutant: the file is deleted without asking whether it exists, and a    *)
(* delete that succeeds or finds nothing counts as a removal              *)
ResolveRemoveUnchecked(i) ==
    LET e == manifest[i] IN
    /\ Idle
    /\ pc[i] = "admitted"
    /\ i = Least({j \in 1..N : pc[j] = "admitted"})
    /\ IsRemove(e)
    /\ \E deleted \in BOOLEAN :
          /\ DidOp(i, "delete")
          /\ IF deleted
             THEN /\ fs' = [fs EXCEPT ![e.filename] = NoFile]
                  /\ Decide(i, "Removed", "")
             ELSE /\ fs' = fs
                  /\ Decide(i, "Failed", "delete")
    /\ UNCHANGED <<splash, main, text, source, manifest, modsDir, fs0, task, bytes, results, report,
                   last_mod, event_tx, rx_alive, events, run, prev>>

(* handle_entry, REMOVE: lib.rs 196-218 *)
(* Mutant: a removal with a digest deletes the file only when its digest   *)
(* is the expected one                                                     *)
ResolveRemoveVerifyingDigest(i) ==
    LET e == manifest[i] IN
    /\ Idle
    /\ pc[i] = "admitted"
    /\ i = Least({j \in 1..N : pc[j] = "admitted"})
    /\ IsRemove(e)
    /\ IF Exists(e.filename)
       THEN IF IsSome(e.sha256)
                 /\ ~DigestMatches(fs[e.filename], Unwrap(e.sha256))
            THEN /\ DidOp(i, "digest")
                 /\ fs' = fs
                 /\ Decide(i, "Unchanged", "")
            ELSE \E deleted \in BOOLEAN :
                   /\ DidOp(i, "delete")
                   /\ IF deleted
                      THEN /\ fs' = [fs EXCEPT ![e.filename] = NoFile]
                           /\ Decide(i, "Removed", "")
                      ELSE /\ fs' = fs
                           /\ Decide(i, "Failed", "delete")
       ELSE /\ Decide(i, "Unchanged", "")
            /\ UNCHANGED <<fs, ops>>
    /\ UNCHANGED <<splash, main, text, source, manifest, modsDir, fs0, task, bytes, results, report,
                   last_mod, event_tx, rx_alive, events, run, prev>>

(* Mutant: a removal empties the mods folder *)
ResolveRemoveClearingFolder(i) ==
    LET e == manifest[i] IN
    /\ Idle
    /\ pc[i] = "admitted"
    /\ i = Least({j \in 1..N : pc[j] = "admitted"})
    /\ IsRemove(e)
    /\ IF Exists(e.filename)
       THEN \E deleted \in BOOLEAN :
              /\ DidOp(i, "delete")
              /\ IF deleted
                 THEN /\ fs' = [f \in Filenames |-> NoFile]
                      /\ Decide(i, "Removed", "")
                 ELSE /\ fs' = fs
                      /\ Decide(i, "Failed", "delete")
       ELSE /\ Decide(i, "Unchanged", "")
            /\ UNCHANGED <<fs, ops>>
    /\ UNCHANGED <<splash, main, text, source, manifest, modsDir, fs0, task, bytes, results, report,
                   last_mod, event_tx, rx_alive, events, run, prev>>

ResolveRemove(i) ==
    LET e == manifest[i] IN
    /\ Idle
    /\ pc[i] = "admitted"
    /\ i = Least({j \in 1..N : pc[j] = "admitted"})
    /\ IsRemove(e)
    /\ IF Exists(e.filename)
       THEN \E deleted \in BOOLEAN :
              /\ DidOp(i, "delete")
              /\ IF deleted
                 THEN /\ fs' = [fs EXCEPT ![e.filename] = NoFile]
                      /\ Decide(i, "Removed", "")
                 ELSE /\ fs' = fs
                      /\ Decide(i, "Failed", "delete")
       ELSE /\ Decide(i, "Unchanged", "")
            /\ UNCHANGED <<fs, ops>>
    /\ UNCHANGED <<splash, main, text, source, manifest, modsDir, fs0, task, bytes, results, report,
                   last_mod, event_tx, rx_alive, events, run, prev>>

(* handle_entry, any other category, the file exists: lib.rs 255-270 *)
ResolveExisting(i) ==
    LET e == manifest[i] IN
    /\ Idle
    /\ pc[i] = "admitted"
    /\ i = Least({j \in 1..N : pc[j] = "admitted"})
    /\ ~IsRemove(e)
    /\ Exists(e.filename)
    /\ \E rd \in BOOLEAN :
          LET c == CheckExisting(e, rd) IN
          /\ Decide(i, c.kind, c.msg)
          /\ ops' = [ops EXCEPT ![i].digest = @ + c.digest]
    /\ UNCHANGED <<splash, main, text, source, manifest, modsDir, fs, fs0, task, bytes, results, report,
                   last_mod, event_tx, rx_alive, events, run, prev>>

(* Mutant: a file another entry is downloading is not fetched again *)
StartDownloadUnlessInFlight(i) ==
    LET e == manifest[i] IN
    /\ Idle
    /\ pc[i] = "admitted"
    /\ i = Least({j \in 1..N : pc[j] = "admitted"})
    /\ ~IsRemove(e)
    /\ ~Exists(e.filename)
    /\ \A j \in 1..N \ {i} :
          manifest[j].filename = e.filename => pc[j] \notin {"send", "bytes"}
    /\ pc' = [pc EXCEPT ![i] = "send"]
    /\ DidOp(i, "fetch")
    /\ UNCHANGED <<splash, main, text, source, manifest, modsDir, fs, fs0, task, cur, result, bytes,
                   results, report, progress, last_mod, event_tx, rx_alive,
                   events, run, prev>>

(* Mutant: a file whose digest does not match is downloaded again *)
StartDownloadAlsoOnMismatch(i) ==
    LET e == manifest[i] IN
    /\ Idle
    /\ pc[i] = "admitted"
    /\ i = Least({j \in 1..N : pc[j] = "admitted"})
    /\ ~IsRemove(e)
    /\ \/ ~Exists(e.filename)
       \/ /\ IsSome(e.sha256)
          /\ ~DigestMatches(fs[e.filename], Unwrap(e.sha256))
    /\ pc' = [pc EXCEPT ![i] = "send"]
    /\ DidOp(i, "fetch")
    /\ UNCHANGED <<splash, main, text, source, manifest, modsDir, fs, fs0, task, cur, result, bytes,
                   results, report, progress, last_mod, event_tx, rx_alive,
                   events, run, prev>>

(* handle_entry, any other category, the file is missing: download_mod     *)
(* sends the request and awaits the response (lib.rs 281-284)              *)
StartDownload(i) ==
    LET e == manifest[i] IN
    /\ Idle
    /\ pc[i] = "admitted"
    /\ i = Least({j \in 1..N : pc[j] = "admitted"})
    /\ ~IsRemove(e)
    /\ ~Exists(e.filename)
    /\ pc' = [pc EXCEPT ![i] = "send"]
    /\ DidOp(i, "fetch")
    /\ UNCHANGED <<splash, main, text, source, manifest, modsDir, fs, fs0, task, cur, result, bytes,
                   results, report, progress, last_mod, event_tx, rx_alive,
                   events, run, prev>>

(* Mutant: a request that fails is sent once more *)
ResponseArrivesOrRetry(i) ==
    /\ Idle
    /\ pc[i] = "send"
    /\ \E ok \in BOOLEAN :
          IF ok
          THEN /\ pc' = [pc EXCEPT ![i] = "bytes"]
               /\ UNCHANGED <<cur, result, progress, ops>>
          ELSE IF ops[i].fetch < 2
               THEN /\ DidOp(i, "fetch")
                    /\ UNCHANGED <<pc, cur, result, progress>>
               ELSE /\ Decide(i, "Failed", "download")
                    /\ ops' = ops
    /\ UNCHANGED <<splash, main, text, source, manifest, modsDir, fs, fs0, task, bytes,
                   results, report, last_mod, event_tx, rx_alive, events,
                   run, prev>>

(* send().await returns: an error fails the entry, a response is followed  *)
(* by bytes().await (lib.rs 284-287)                                       *)
ResponseArrives(i) ==
    /\ Idle
    /\ pc[i] = "send"
    /\ \E ok \in BOOLEAN :
          IF ok
          THEN /\ pc' = [pc EXCEPT ![i] = "bytes"]
               /\ UNCHANGED <<cur, result, progress>>
          ELSE Decide(i, "Failed", "download")
    /\ UNCHANGED <<splash, main, text, source, manifest, modsDir, fs, fs0, task, bytes, ops, results,
                   report, last_mod, event_tx, rx_alive, events, run, prev>>

(* bytes().await returns: an error fails the entry; otherwise the body is  *)
(* written and verified (lib.rs 286-305)                                   *)
BodyArrives(i) ==
    LET e == manifest[i] IN
    /\ Idle
    /\ pc[i] = "bytes"
    /\ \E ok \in BOOLEAN :
          IF ok
          THEN \E b \in Contents, wr \in WriteEnds, rd \in BOOLEAN :
                 LET w == WriteAndVerify(e, b, wr, rd) IN
                 /\ bytes' = [bytes EXCEPT ![i] = b]
                 /\ fs' = [fs EXCEPT ![e.filename] = w.file]
                 /\ ops' = [ops EXCEPT ![i].write = @ + 1,
                                       ![i].digest = @ + w.digest]
                 /\ Decide(i, w.kind, w.msg)
          ELSE /\ Decide(i, "Failed", "response")
               /\ UNCHANGED <<bytes, fs, ops>>
    /\ UNCHANGED <<splash, main, text, source, manifest, modsDir, fs0, task, results, report, last_mod,
                   event_tx, rx_alive, events, run, prev>>

(* Mutant: an entry that changed nothing sends no event *)
EmitEventUnlessUnchanged(i) ==
    /\ cur = i
    /\ pc[i] = "counted"
    /\ events' = IF result[i].kind = "Unchanged" THEN events
                 ELSE Sent(EntryEvent(i))
    /\ pc' = [pc EXCEPT ![i] = "emitted"]
    /\ UNCHANGED <<splash, main, text, source, manifest, modsDir, fs, fs0, task, cur, result, bytes, ops,
                   results, report, progress, last_mod, event_tx, rx_alive,
                   run, prev>>

(* handle_entry: send_event with the entry's outcome (lib.rs 202-236) *)
EmitEvent(i) ==
    /\ cur = i
    /\ pc[i] = "counted"
    /\ events' = Sent(EntryEvent(i))
    /\ pc' = [pc EXCEPT ![i] = "emitted"]
    /\ UNCHANGED <<splash, main, text, source, manifest, modsDir, fs, fs0, task, cur, result, bytes, ops,
                   results, report, progress, last_mod, event_tx, rx_alive,
                   run, prev>>

(* Mutant: a failed entry does not become the last processed mod *)
SetLastModUnlessFailed(i) ==
    /\ cur = i
    /\ pc[i] = "emitted"
    /\ last_mod' = IF result[i].kind = "Failed" THEN last_mod
                   ELSE Some(manifest[i].filename)
    /\ pc' = [pc EXCEPT ![i] = "lastset"]
    /\ UNCHANGED <<splash, main, text, source, manifest, modsDir, fs, fs0, task, cur, result,
                   bytes, ops, results, report, progress, event_tx, rx_alive,
                   events, run, prev>>

(* handle_entry: progress.set_last_mod(filename) (lib.rs 242) *)
SetLastMod(i) ==
    /\ cur = i
    /\ pc[i] = "emitted"
    /\ last_mod' = Some(manifest[i].filename)
    /\ pc' = [pc EXCEPT ![i] = "lastset"]
    /\ UNCHANGED <<splash, main, text, source, manifest, modsDir, fs, fs0, task, cur, result, bytes, ops,
                   results, report, progress, event_tx, rx_alive, events,
                   run, prev>>

(* Mutant: the future returns without incrementing the processed counter *)
CompleteUncounted(i) ==
    /\ cur = i
    /\ pc[i] = "lastset"
    /\ progress' = progress
    /\ results' = Append(results, EntryResult(i))
    /\ pc' = [pc EXCEPT ![i] = "done"]
    /\ cur' = 0
    /\ UNCHANGED <<splash, main, text, source, manifest, modsDir, fs, fs0, task, result, bytes,
                   ops, report, last_mod, event_tx, rx_alive, events, run,
                   prev>>

(* handle_entry: progress.processed.fetch_add(1), and the future returns   *)
(* its result, which the stream collects (lib.rs 243-244, 148)             *)
Complete(i) ==
    /\ cur = i
    /\ pc[i] = "lastset"
    /\ progress' = [progress EXCEPT !.processed = @ + 1]
    /\ results' = Append(results, EntryResult(i))
    /\ pc' = [pc EXCEPT ![i] = "done"]
    /\ cur' = 0
    /\ UNCHANGED <<splash, main, text, source, manifest, modsDir, fs, fs0, task, result, bytes, ops,
                   report, last_mod, event_tx, rx_alive, events, run, prev>>

(* Mutant: the stream stops at the first failed result, as a try_collect  *)
(* would                                                                   *)
CollectUntilFailure ==
    /\ task = "stream"
    /\ cur = 0
    /\ \/ \A i \in 1..N : pc[i] = "done"
       \/ \E k \in 1..Len(results) : results[k].kind = "Failed"
    /\ report' = BuildReport(results)
    /\ task' = "report"
    /\ UNCHANGED <<splash, main, text, source, manifest, modsDir, fs, fs0, pc, cur, result, bytes, ops,
                   results, progress, last_mod, event_tx, rx_alive, events,
                   run, prev>>

(* Mutant: a failed result makes the function return its error *)
CollectOrBail ==
    /\ task = "stream"
    /\ cur = 0
    /\ \A i \in 1..N : pc[i] = "done"
    /\ IF \E k \in 1..Len(results) : results[k].kind = "Failed"
       THEN task' = "aborted" /\ report' = report
       ELSE task' = "report" /\ report' = BuildReport(results)
    /\ UNCHANGED <<splash, main, text, source, manifest, modsDir, fs, fs0, pc, cur, result, bytes, ops,
                   results, progress, last_mod, event_tx, rx_alive, events,
                   run, prev>>

(* The stream is exhausted: the results are sorted into the four buckets   *)
(* (lib.rs 152-177)                                                        *)
Collect ==
    /\ task = "stream"
    /\ cur = 0
    /\ \A i \in 1..N : pc[i] = "done"
    /\ report' = BuildReport(results)
    /\ task' = "report"
    /\ UNCHANGED <<splash, main, text, source, manifest, modsDir, fs, fs0, pc, cur, result, bytes, ops,
                   results, progress, last_mod, event_tx, rx_alive, events,
                   run, prev>>

(* Mutant: a run that resolved nothing sends no terminal event *)
FinishUnlessEmpty ==
    /\ task = "report"
    /\ IF event_tx /\ ~rx_alive
       THEN task' = "send_failed" /\ events' = events
       ELSE task' = "returned"
            /\ events' = IF results = <<>> THEN events
                         ELSE Sent([kind |-> "Finished", report |-> report])
    /\ UNCHANGED <<splash, main, text, source, manifest, modsDir, fs, fs0, pc, cur, result, bytes, ops,
                   results, report, progress, last_mod, event_tx, rx_alive,
                   run, prev>>

(* Mutant: the terminal event carries a report built before the results   *)
(* were sorted into it                                                     *)
FinishWithEmptyReport ==
    /\ task = "report"
    /\ IF event_tx /\ ~rx_alive
       THEN task' = "send_failed" /\ events' = events
       ELSE task' = "returned"
            /\ events' = Sent([kind |-> "Finished", report |-> EmptyReport])
    /\ UNCHANGED <<splash, main, text, source, manifest, modsDir, fs, fs0, pc, cur, result, bytes,
                   ops, results, report, progress, last_mod, event_tx,
                   rx_alive, run, prev>>

(* The terminal event and the return (lib.rs 179-183): the send's error,   *)
(* when the receiver is gone, is returned with `?`                         *)
Finish ==
    /\ task = "report"
    /\ IF event_tx /\ ~rx_alive
       THEN task' = "send_failed" /\ events' = events
       ELSE task' = "returned"
            /\ events' = Sent([kind |-> "Finished", report |-> report])
    /\ UNCHANGED <<splash, main, text, source, manifest, modsDir, fs, fs0, pc, cur, result, bytes, ops,
                   results, report, progress, last_mod, event_tx, rx_alive,
                   run, prev>>

---------------------------------------------------------------------------
(* The environment *)

(* The observer goes away: the UI window closes and drops the receiver *)
DropReceiver ==
    /\ rx_alive
    /\ rx_alive' = FALSE
    /\ UNCHANGED <<splash, main, text, source, manifest, modsDir, fs, fs0, task, pc, cur, result, bytes,
                   ops, results, report, progress, last_mod, event_tx,
                   events, run, prev>>

Ended == task \in {"returned", "send_failed", "aborted"}

(* What a run leaves behind: how it ended ("clean": it returned a report   *)
(* with no failed entry) and how many files it downloaded or removed       *)
EndOfRun ==
    [end |-> IF task /= "returned" THEN task
             ELSE IF report.failed = <<>> THEN "clean" ELSE "failed",
     changes |-> Len(report.downloaded) + Len(report.removed)]

(* The program is started again with the same manifest on the directory    *)
(* the previous run left                                                   *)
Rerun ==
    /\ Ended
    /\ run < MaxRuns
    /\ run' = run + 1
    /\ prev' = EndOfRun
    /\ fs0' = fs
    /\ task' = "start"
    /\ pc' = [i \in 1..N |-> "queued"]
    /\ cur' = 0
    /\ result' = [i \in 1..N |-> NoResult]
    /\ bytes' = [i \in 1..N |-> NoBytes]
    /\ ops' = [i \in 1..N |-> NoOps]
    /\ results' = <<>>
    /\ report' = EmptyReport
    /\ progress' = NewProgress(N)
    /\ last_mod' = None
    /\ events' = <<>>
    /\ rx_alive' = TRUE
    /\ UNCHANGED <<splash, main, text, source, manifest, modsDir, fs, event_tx>>

Next ==
    \/ EnsureModsFolder
    \/ Admit
    \/ \E i \in 1..N : ResolveRemove(i)
    \/ \E i \in 1..N : ResolveExisting(i)
    \/ \E i \in 1..N : StartDownload(i)
    \/ \E i \in 1..N : ResponseArrives(i)
    \/ \E i \in 1..N : BodyArrives(i)
    \/ \E i \in 1..N : EmitEvent(i)
    \/ \E i \in 1..N : SetLastMod(i)
    \/ \E i \in 1..N : Complete(i)
    \/ Collect
    \/ Finish

(* One run, the observer staying for the whole run (as the --cli loop does) *)
Spec == Init /\ [][Next]_vars

(* One run of a manifest longer than the pool *)
SpecPool == InitPool /\ [][Next]_vars

(* One run, with an observer that may go away at any moment *)
NextObs == Next \/ DropReceiver

SpecObs == Init /\ [][NextObs]_vars

(* The steps of sync_all_from_entries are taken as long as one is possible: *)
(* the task is scheduled, and every fetch, write, delete and read returns. *)
(* Nothing is assumed of the observer.                                     *)
(* Every line of the manifest expects the digest of "x", so that every    *)
(* entry fetches, writes, deletes or hashes; the files present hold "x".  *)
InitLive ==
    /\ Init
    /\ \A i \in 1..N : manifest[i].sha256 /= None
    /\ \A f \in Filenames : fs[f] \in {NoFile, "x"}

FairSpec == InitLive /\ [][NextObs]_vars /\ WF_vars(Next)

(* sync_all_from_entries called with or without an event sender          *)
(* (event_tx: Option<UnboundedSender<SyncEvent>>); without one there is    *)
(* no receiver.  The manifests and folders are those of InitLive.          *)
InitObserver ==
    /\ splash = NoSplash
    /\ manifest \in Manifests
    /\ \A i \in 1..N : manifest[i].sha256 /= None
    /\ modsDir \in BOOLEAN
    /\ fs \in [Filenames -> {NoFile, "x"}]
    /\ ~modsDir => \A f \in Filenames : fs[f] = NoFile
    /\ fs0 = fs
    /\ StartOfRun(manifest)
    /\ event_tx \in BOOLEAN
    /\ rx_alive = event_tx
    /\ run = 1
    /\ prev = NoRun
    /\ source = LoadedSource
    /\ text = NoText
    /\ main = MainAt("cli")

(* One run; the receiver, when there is one, may be dropped at any moment, *)
(* the start of the run included                                           *)
SpecObserver == InitObserver /\ [][NextObs]_vars

(* The program from its start: main has parsed its arguments (no --hash)   *)
(* and is about to load the manifest                                       *)
InitMain ==
    /\ splash = NoSplash
    /\ source \in Sources
    /\ manifest = <<>>
    /\ modsDir \in BOOLEAN
    /\ fs \in Folders
    /\ ~modsDir => \A f \in Filenames : fs[f] = NoFile
    /\ fs0 = fs
    /\ task = "load"
    /\ pc = <<>>
    /\ cur = 0
    /\ result = <<>>
    /\ bytes = <<>>
    /\ ops = <<>>
    /\ results = <<>>
    /\ report = EmptyReport
    /\ progress = NoProgress
    /\ last_mod = None
    /\ events = <<>>
    /\ event_tx = FALSE
    /\ rx_alive = FALSE
    /\ run = 1
    /\ prev = NoRun
    /\ text = NoText
    /\ main = MainAt("load")

(* Mutant: a manifest that cannot be obtained counts as an empty manifest *)
LoadModEntriesOrEmpty ==
    /\ task = "load"
    /\ main.pc = "load"
    /\ \E m \in Manifests :
          /\ source.obtained \/ m = <<>>
          /\ manifest' = m
          /\ pc' = [i \in 1..Len(m) |-> "queued"]
          /\ result' = [i \in 1..Len(m) |-> NoResult]
          /\ bytes' = [i \in 1..Len(m) |-> NoBytes]
          /\ ops' = [i \in 1..Len(m) |-> NoOps]
          /\ progress' = NewProgress(Len(m))
          /\ main' = [main EXCEPT !.pc = IF main.cli THEN "cli" ELSE "ui",
                                  !.stdout = LoadedLine(Len(m))]
    /\ event_tx' = TRUE
    /\ rx_alive' = TRUE
    /\ task' = "start"
    /\ UNCHANGED <<splash, text, source, modsDir, fs, fs0, cur, results, report, last_mod,
                   events, run, prev>>

(* main 73-97: load_mod_entries (lib.rs 104-114) returns the parsed        *)
(* manifest, or its error, which main returns; then the progress state and *)
(* the channel are created and sync_all_from_entries is spawned            *)
LoadModEntries ==
    /\ task = "load"
    /\ main.pc = "load"
    /\ IF source.given /= "none" /\ source.obtained
       THEN /\ \E m \in Manifests :
                 /\ manifest' = m
                 /\ pc' = [i \in 1..Len(m) |-> "queued"]
                 /\ result' = [i \in 1..Len(m) |-> NoResult]
                 /\ bytes' = [i \in 1..Len(m) |-> NoBytes]
                 /\ ops' = [i \in 1..Len(m) |-> NoOps]
                 /\ progress' = NewProgress(Len(m))
                 /\ main' = [main EXCEPT !.pc = IF main.cli THEN "cli" ELSE "ui",
                                         !.stdout = LoadedLine(Len(m))]
            /\ event_tx' = TRUE
            /\ rx_alive' = TRUE
            /\ task' = "start"
       ELSE /\ task' = "load_failed"
            /\ main' = [main EXCEPT !.pc = "failed"]
            /\ UNCHANGED <<manifest, pc, result, bytes, ops, progress,
                           event_tx, rx_alive>>
    /\ UNCHANGED <<splash, text, source, modsDir, fs, fs0, cur, results, report, last_mod,
                   events, run, prev>>

NextMain == LoadModEntries \/ Next

SpecMain == InitMain /\ [][NextMain]_vars

(* The program from its very start: main is about to look at its          *)
(* arguments; --hash names a file of the mods folder or is not given.     *)
(* The files present hold "x".                                            *)
InitArgs ==
    /\ splash = NoSplash
    /\ main \in [pc : {"args"}, hash : {None} \cup {Some(f) : f \in Filenames},
                  cli : BOOLEAN, stdout : {NoOutput}]
    /\ source \in Sources
    /\ manifest = <<>>
    /\ modsDir \in BOOLEAN
    /\ fs \in [Filenames -> {NoFile, "x"}]
    /\ ~modsDir => \A f \in Filenames : fs[f] = NoFile
    /\ fs0 = fs
    /\ task = "load"
    /\ pc = <<>>
    /\ cur = 0
    /\ result = <<>>
    /\ bytes = <<>>
    /\ ops = <<>>
    /\ results = <<>>
    /\ report = EmptyReport
    /\ progress = NoProgress
    /\ last_mod = None
    /\ events = <<>>
    /\ event_tx = FALSE
    /\ rx_alive = FALSE
    /\ run = 1
    /\ prev = NoRun
    /\ text = NoText

(* Mutant: the digest is printed and main goes on to load the manifest *)
HashModeThenLoad ==
    /\ main.pc = "args"
    /\ IF IsSome(main.hash)
       THEN \E rd \in BOOLEAN :
               LET content == fs[Unwrap(main.hash)] IN
               IF content /= NoFile /\ rd
               THEN main' = [main EXCEPT !.pc = "load",
                                        !.stdout = HashLine(HexDigest(content))]
               ELSE main' = [main EXCEPT !.pc = "failed"]
       ELSE main' = [main EXCEPT !.pc = "load", !.stdout = ModsDirLine]
    /\ UNCHANGED <<splash, text, source, manifest, modsDir, fs, fs0, task, pc, cur,
                   result, bytes, ops, results, report, progress, last_mod,
                   event_tx, rx_alive, events, run, prev>>

(* main 60-71: with --hash FILE, sha256_file (lib.rs 308-313) reads the    *)
(* file and main prints the digest in lower-case hex and returns Ok, or   *)
(* returns the error of the read; without --hash main prints the mods     *)
(* directory and goes on                                                   *)
HashMode ==
    /\ main.pc = "args"
    /\ IF IsSome(main.hash)
       THEN \E rd \in BOOLEAN :
               LET content == fs[Unwrap(main.hash)] IN
               IF content /= NoFile /\ rd
               THEN main' = [main EXCEPT !.pc = "done",
                                        !.stdout = HashLine(HexDigest(content))]
               ELSE main' = [main EXCEPT !.pc = "failed"]
       ELSE main' = [main EXCEPT !.pc = "load", !.stdout = ModsDirLine]
    /\ UNCHANGED <<splash, text, source, manifest, modsDir, fs, fs0, task, pc, cur,
                   result, bytes, ops, results, report, progress, last_mod,
                   event_tx, rx_alive, events, run, prev>>

NextArgs == HashMode \/ LoadModEntries \/ Next

SpecArgs == InitArgs /\ [][NextArgs]_vars

(* The program after the spawn (main 89-97): the sync task is at its       *)
(* start, and main is at the branch of line 100, in the polling loop with  *)
(* --cli and inside run_native without.  Manifests and folders are those   *)
(* of InitLive.                                                            *)
InitProgram ==
    /\ splash = NoSplash
    /\ manifest \in Manifests
    /\ \A i \in 1..N : manifest[i].sha256 /= None
    /\ modsDir \in BOOLEAN
    /\ fs \in [Filenames -> {NoFile, "x"}]
    /\ ~modsDir => \A f \in Filenames : fs[f] = NoFile
    /\ fs0 = fs
    /\ StartOfRun(manifest)
    /\ event_tx = TRUE
    /\ rx_alive = TRUE
    /\ run = 1
    /\ prev = NoRun
    /\ source = LoadedSource
    /\ text = NoText
    /\ \E cli \in BOOLEAN :
          main = [pc |-> IF cli THEN "cli" ELSE "ui", hash |-> None,
                  cli |-> cli, stdout |-> LoadedLine(N)]

(* main 119-126: one turn of the loop of CLI mode: read the counters,     *)
(* print them, and start the sleep                                        *)
PollProgress ==
    /\ main.pc = "cli"
    /\ main' = [main EXCEPT
                  !.pc = "sleep",
                  !.stdout = ProgressLine(Processed(progress), progress.total)]
    /\ UNCHANGED <<splash, text, source, manifest, modsDir, fs, fs0, task, pc, cur,
                   result, bytes, ops, results, report, progress, last_mod,
                   event_tx, rx_alive, events, run, prev>>

(* main 126-127: the sleep ends and the loop, which has no break and no   *)
(* return, starts its next turn                                           *)
SleepEnds ==
    /\ main.pc = "sleep"
    /\ main' = [main EXCEPT !.pc = "cli"]
    /\ UNCHANGED <<splash, text, source, manifest, modsDir, fs, fs0, task, pc, cur,
                   result, bytes, ops, results, report, progress, last_mod,
                   event_tx, rx_alive, events, run, prev>>

(* main 100-117: run_native returns when the window is closed, and the    *)
(* app and its receiver are dropped; when the UI cannot be launched,      *)
(* expect panics                                                          *)
UiReturns ==
    /\ main.pc = "ui"
    /\ \E launched \in BOOLEAN :
          main' = [main EXCEPT !.pc = IF launched THEN "exiting" ELSE "failed"]
    /\ rx_alive' = FALSE
    /\ UNCHANGED <<splash, text, source, manifest, modsDir, fs, fs0, task, pc, cur,
                   result, bytes, ops, results, report, progress, last_mod,
                   event_tx, events, run, prev>>

(* main 130-131: the final line is printed and main returns Ok *)
Exit ==
    /\ main.pc = "exiting"
    /\ main' = [main EXCEPT !.pc = "done", !.stdout = ExitingLine]
    /\ UNCHANGED <<splash, text, source, manifest, modsDir, fs, fs0, task, pc, cur,
                   result, bytes, ops, results, report, progress, last_mod,
                   event_tx, rx_alive, events, run, prev>>

(* The spawned task takes steps while the process exists: when main has   *)
(* returned, the runtime is dropped and the process ends                  *)
Running == main.pc \notin {"done", "failed"}

RunStep == Running /\ Next

NextProgram == RunStep \/ PollProgress \/ SleepEnds \/ UiReturns \/ Exit

SpecProgram == InitProgram /\ [][NextProgram]_vars

(* The runtime schedules the task and main: the task's steps are taken as *)
(* long as one is possible, the sleep of the polling loop ends, and main  *)
(* gets from run_native's return to its own.  Nothing is assumed of the   *)
(* user closing the window.                                               *)
FairProgram ==
    /\ SpecProgram
    /\ WF_vars(RunStep)
    /\ WF_vars(PollProgress)
    /\ WF_vars(SleepEnds)
    /\ WF_vars(Exit)

(* load_mod_entries has the text of the manifest and parses it line by     *)
(* line; nothing else of the program exists yet                            *)
InitParse ==
    /\ splash = NoSplash
    /\ text \in [lines : Texts, parsed : {0}]
    /\ main = MainAt("load")
    /\ source = LoadedSource
    /\ manifest = <<>>
    /\ modsDir = FALSE
    /\ fs = [f \in Filenames |-> NoFile]
    /\ fs0 = fs
    /\ task = "parse"
    /\ pc = <<>>
    /\ cur = 0
    /\ result = <<>>
    /\ bytes = <<>>
    /\ ops = <<>>
    /\ results = <<>>
    /\ report = EmptyReport
    /\ progress = NoProgress
    /\ last_mod = None
    /\ events = <<>>
    /\ event_tx = FALSE
    /\ rx_alive = FALSE
    /\ run = 1
    /\ prev = NoRun

(* lib.rs 113: text.lines().filter_map(parse_line).collect(), one line *)
ParseNextLine ==
    /\ task = "parse"
    /\ text.parsed < Len(text.lines)
    /\ LET e == ParseLine(text.lines[text.parsed + 1]) IN
       manifest' = IF IsSome(e) THEN Append(manifest, Unwrap(e))
                   ELSE manifest
    /\ text' = [text EXCEPT !.parsed = @ + 1]
    /\ UNCHANGED <<splash, main, source, modsDir, fs, fs0, task, pc, cur, result, bytes,
                   ops, results, report, progress, last_mod, event_tx,
                   rx_alive, events, run, prev>>

SpecParse == InitParse /\ [][ParseNextLine]_vars

(* The program after the spawn without --cli: the sync task is at its     *)
(* start and main is inside run_native, where the app draws its frames.   *)
(* Manifests and folders are those of InitLive.                           *)
InitUi ==
    /\ splash = NoSplash
    /\ manifest \in Manifests
    /\ \A i \in 1..N : manifest[i].sha256 /= None
    /\ modsDir \in BOOLEAN
    /\ fs \in [Filenames -> {NoFile, "x"}]
    /\ ~modsDir => \A f \in Filenames : fs[f] = NoFile
    /\ fs0 = fs
    /\ StartOfRun(manifest)
    /\ event_tx = TRUE
    /\ rx_alive = TRUE
    /\ run = 1
    /\ prev = NoRun
    /\ source = LoadedSource
    /\ text = NoText
    /\ main = [pc |-> "ui", hash |-> None, cli |-> FALSE,
               stdout |-> LoadedLine(N)]

(* gui.rs 68-71: the report holds a download, a removal or a failure *)
HasChanges(r) == r.downloaded /= <<>> \/ r.removed /= <<>> \/ r.failed /= <<>>

(* Mutant: the splash is finished as soon as every entry is counted *)
DrawSplashFinishedByCount ==
    /\ main.pc = "ui"
    /\ rx_alive
    /\ \E clicked \in BOOLEAN :
          LET new == SubSeq(events, splash.read + 1, Len(events))
              fin == {k \in DOMAIN new : new[k].kind = "Finished"}
              got == fin /= {} /\ ~splash.finished
              first == new[CHOOSE k \in fin : \A j \in fin : k <= j].report
              finished == splash.finished \/ fin /= {}
                            \/ Processed(progress) = progress.total
              changes == IF got THEN HasChanges(first) ELSE splash.has_changes
              held == IF got THEN Some(first) ELSE splash.report
              handed == finished /\ changes /\ clicked /\ IsSome(held)
          IN  splash' = [finished |-> finished,
                         has_changes |-> changes,
                         report |-> IF handed THEN None ELSE held,
                         sent |-> IF handed THEN held ELSE splash.sent,
                         read |-> Len(events)]
    /\ UNCHANGED <<main, text, source, manifest, modsDir, fs, fs0, task, pc, cur,
                   result, bytes, ops, results, report, progress, last_mod,
                   event_tx, rx_alive, events, run, prev>>

(* ModSyncApp::draw_splash, gui.rs 56-229, one frame: the events in the    *)
(* channel are drained, and the first Finished event of a splash that is   *)
(* still processing makes it finished, stores the report and sets          *)
(* has_changes (58-76); then, on a finished splash with changes, a click   *)
(* takes the report out of the splash and sends it to the transaction log  *)
(* (180-189)                                                               *)
DrawSplash ==
    /\ main.pc = "ui"
    /\ rx_alive
    /\ \E clicked \in BOOLEAN :
          LET new == SubSeq(events, splash.read + 1, Len(events))
              fin == {k \in DOMAIN new : new[k].kind = "Finished"}
              got == fin /= {} /\ ~splash.finished
              first == new[CHOOSE k \in fin : \A j \in fin : k <= j].report
              finished == splash.finished \/ fin /= {}
              changes == IF got THEN HasChanges(first) ELSE splash.has_changes
              held == IF got THEN Some(first) ELSE splash.report
              handed == finished /\ changes /\ clicked /\ IsSome(held)
          IN  splash' = [finished |-> finished,
                         has_changes |-> changes,
                         report |-> IF handed THEN None ELSE held,
                         sent |-> IF handed THEN held ELSE splash.sent,
                         read |-> Len(events)]
    /\ UNCHANGED <<main, text, source, manifest, modsDir, fs, fs0, task, pc, cur,
                   result, bytes, ops, results, report, progress, last_mod,
                   event_tx, rx_alive, events, run, prev>>

NextUi == RunStep \/ DrawSplash \/ UiReturns \/ Exit

SpecUi == InitUi /\ [][NextUi]_vars

(* Manifests of one line, as they are written: three, four and five        *)
(* fields, an empty fourth field, white space around the line, white space *)
(* around the pipes as in the header of main.rs 26, a comment, and a line  *)
(* of two fields                                                           *)
Pipe == <<"|">>

Space == <<" ">>

ManifestLines ==
    { REQUIRED \o Pipe \o <<"a">> \o Pipe \o <<"u">>,
      REQUIRED \o Pipe \o <<"a">> \o Pipe \o <<"u">> \o Pipe,
      REQUIRED \o Pipe \o <<"a">> \o Pipe \o <<"u">> \o Pipe \o <<"a","1">>,
      REQUIRED \o Pipe \o <<"a">> \o Pipe \o <<"u">> \o Pipe \o <<"a","1">>
          \o Pipe \o <<"z">>,
      REQUIRED \o Pipe \o <<"a">> \o Pipe \o <<"u">> \o Pipe \o Pipe \o <<"z">>,
      REMOVE \o Pipe \o <<"a">> \o Pipe \o <<"u">>,
      REMOVE \o Space \o Pipe \o <<"a">> \o Pipe \o <<"u">>,
      Space \o REMOVE \o Pipe \o <<"a">> \o Pipe \o <<"u">> \o Pipe
          \o <<"a","1">> \o Space,
      REQUIRED \o Space \o Pipe \o Space \o <<"a">> \o Space \o Pipe
          \o Space \o <<"u">> \o Space \o Pipe \o Space \o <<"a","1">>,
      REMOVE \o Space \o Pipe \o Space \o <<"a">> \o Space \o Pipe
          \o Space \o <<"u">>,
      <<"#">> \o Space \o REMOVE \o Pipe \o <<"a">> \o Pipe \o <<"u">>,
      REQUIRED \o Pipe \o <<"a">> }

(* The filenames these lines give *)
LoadFilenames == { <<"a">>, <<" ","a"," ">> }

(* main has the text of the manifest, of one line, and the mods folder     *)
(* holds none, one or both of the files the lines name                     *)
InitLoad ==
    /\ splash = NoSplash
    /\ text \in [lines : {<<l>> : l \in ManifestLines}, parsed : {0}]
    /\ main = MainAt("load")
    /\ source = LoadedSource
    /\ manifest = <<>>
    /\ modsDir \in BOOLEAN
    /\ fs \in [LoadFilenames -> {NoFile, "x"}]
    /\ ~modsDir => \A f \in LoadFilenames : fs[f] = NoFile
    /\ fs0 = fs
    /\ task = "parse"
    /\ pc = <<>>
    /\ cur = 0
    /\ result = <<>>
    /\ bytes = <<>>
    /\ ops = <<>>
    /\ results = <<>>
    /\ report = EmptyReport
    /\ progress = NoProgress
    /\ last_mod = None
    /\ events = <<>>
    /\ event_tx = FALSE
    /\ rx_alive = FALSE
    /\ run = 1
    /\ prev = NoRun

(* main 75-97: the text is parsed; the progress state and the channel are  *)
(* created and sync_all_from_entries is spawned on the parsed entries      *)
SpawnSync ==
    /\ task = "parse"
    /\ text.parsed = Len(text.lines)
    /\ main.pc = "load"
    /\ pc' = [i \in 1..N |-> "queued"]
    /\ result' = [i \in 1..N |-> NoResult]
    /\ bytes' = [i \in 1..N |-> NoBytes]
    /\ ops' = [i \in 1..N |-> NoOps]
    /\ progress' = NewProgress(N)
    /\ main' = [main EXCEPT !.pc = IF main.cli THEN "cli" ELSE "ui",
                            !.stdout = LoadedLine(N)]
    /\ event_tx' = TRUE
    /\ rx_alive' = TRUE
    /\ task' = "start"
    /\ UNCHANGED <<splash, text, source, manifest, modsDir, fs, fs0, cur, results,
                   report, last_mod, events, run, prev>>

NextLoad == ParseNextLine \/ SpawnSync \/ Next

SpecLoad == InitLoad /\ [][NextLoad]_vars

(* One run of a manifest of one entry, of any spelling *)
InitResolve ==
    /\ splash = NoSplash
    /\ manifest \in { <<e>> : e \in AnyEntries }
    /\ modsDir \in BOOLEAN
    /\ fs \in Folders
    /\ ~modsDir => \A f \in Filenames : fs[f] = NoFile
    /\ fs0 = fs
    /\ StartOfRun(manifest)
    /\ event_tx = TRUE
    /\ rx_alive = TRUE
    /\ run = 1
    /\ prev = NoRun
    /\ source = LoadedSource
    /\ text = NoText
    /\ main = MainAt("cli")

SpecResolve == InitResolve /\ [][Next]_vars

(* Runs of the program one after the other on the same directory, for     *)
(* manifests that name no file twice                                      *)
DistinctFilenames(m) ==
    \A i, j \in DOMAIN m : m[i].filename = m[j].filename => i = j

InitTwice ==
    /\ Init
    /\ DistinctFilenames(manifest)

NextTwice == Next \/ Rerun

SpecTwice == InitTwice /\ [][NextTwice]_vars

---------------------------------------------------------------------------
(* Vocabulary of the properties *)

Count(x, seq) == Cardinality({k \in DOMAIN seq : seq[k] = x})

Range(seq) == {seq[k] : k \in DOMAIN seq}

Lowered(str) == [k \in DOMAIN str |-> ToAsciiLowercase(str[k])]

(* The entry's category is REMOVE in some letter case *)
RemovalEntry(e) == Lowered(e.category) = <<"r","e","m","o","v","e">>

(* The digest of the content is the expected digest, in some letter case *)
SameDigest(content, expected) == Lowered(HexDigest(content)) = Lowered(expected)

(* The entries of the failed bucket, without their messages *)
FailedEntries(r) == [k \in DOMAIN r.failed |-> r.failed[k][1]]

BucketOf(r, kind) ==
    CASE kind = "Downloaded" -> r.downloaded
      [] kind = "Unchanged"  -> r.unchanged
      [] kind = "Removed"    -> r.removed
      [] kind = "Failed"     -> FailedEntries(r)

Decided(i) == result[i].kind \in Kinds

(* Entry i is the only entry of the manifest that names its file *)
OnlyEntryOfFile(i) ==
    \A j \in 1..N : manifest[j].filename = manifest[i].filename => j = i

---------------------------------------------------------------------------
(* C1: when sync_all_from_entries returns a Report, every entry of the     *)
(* manifest is in exactly one of the four buckets (each bucket holds the   *)
(* entries with that outcome, as often as the manifest holds them), the    *)
(* bucket sizes sum to N, each outcome counter equals the size of its      *)
(* bucket, and the processed counter equals N.                             *)
C1_ReportPartitionsManifest ==
    task = "returned" =>
      /\ \A i \in 1..N : Decided(i)
      /\ \A kind \in Kinds :
           \A e \in Range(manifest) \cup Range(BucketOf(report, kind)) :
             Count(e, BucketOf(report, kind)) =
               Cardinality({i \in 1..N : manifest[i] = e
                                         /\ result[i].kind = kind})
      /\ Len(report.downloaded) + Len(report.unchanged)
           + Len(report.removed) + Len(report.failed) = N
      /\ progress.downloaded = Len(report.downloaded)
      /\ progress.unchanged = Len(report.unchanged)
      /\ progress.removed = Len(report.removed)
      /\ progress.failed = Len(report.failed)
      /\ progress.processed = N

(* A returned run of two entries, one downloaded and one failed *)
C1_Witness ==
    /\ task = "returned"
    /\ N = 2
    /\ Len(report.downloaded) = 1
    /\ Len(report.failed) = 1

(* C2: in every state the futures in the pool, among them every entry      *)
(* whose resolution has started and has not yet produced its outcome, are  *)
(* at most 8.                                                              *)
C2_AtMostEightInFlight ==
    /\ Cardinality(InFlight) <= 8
    /\ Cardinality({i \in 1..N : pc[i] \in {"send", "bytes", "counted",
                                            "emitted", "lastset"}}) <= 8

(* The pool is full, one of its entries awaits the network, and an entry   *)
(* of the manifest is still waiting for a place                            *)
C2_Witness ==
    /\ Cardinality(InFlight) = 8
    /\ \E i \in 1..N : pc[i] \in {"send", "bytes"}
    /\ Queued /= {}

(* C3: a failed entry stops nothing.  The run is over only with every      *)
(* entry finished and holding its own outcome, it is aborted only before   *)
(* the first entry was admitted, and while the stream runs a step is       *)
(* always possible, whatever has failed.                                   *)
C3_FailureIsIsolated ==
    /\ task \in {"report", "returned", "send_failed"} =>
         \A i \in 1..N : pc[i] = "done" /\ Decided(i)
    /\ task = "aborted" => \A i \in 1..N : pc[i] = "queued"
    /\ task = "stream" => ENABLED Next

(* The first entry to finish failed, and the entry after it was downloaded *)
C3_Witness ==
    /\ task = "returned"
    /\ Len(results) = 2
    /\ results[1].kind = "Failed"
    /\ results[2].kind = "Downloaded"

---------------------------------------------------------------------------
(* Steps of one entry, as the properties name them *)

(* The first poll of entry i: handle_entry runs up to its first await or   *)
(* to its outcome                                                          *)
FirstPoll(i) == pc[i] = "admitted" /\ pc'[i] /= "admitted"

(* The step in which entry i, awaiting the network, gets its outcome *)
FetchEnds(i) == pc[i] \in {"send", "bytes"} /\ pc'[i] = "counted"

OtherFilesKept(f) == \A g \in Filenames \ {f} : fs'[g] = fs[g]

Failure(msg) == [kind |-> "Failed", msg |-> msg]

(* C5: an entry whose category is REMOVE in any letter case is resolved in *)
(* its first poll.  File missing: Unchanged, nothing deleted, the folder   *)
(* as it was.  File present: either Removed and the file gone (the delete  *)
(* succeeded), or Failed with the delete error and the file still there.   *)
(* Its outcome then stays.                                                 *)
C5_RemoveEntry ==
    [][\A i \in 1..N :
        LET f == manifest[i].filename IN
        /\ (FirstPoll(i) /\ RemovalEntry(manifest[i])) =>
             /\ pc'[i] = "counted"
             /\ modsDir' = modsDir
             /\ IF fs[f] = NoFile
                THEN /\ result'[i].kind = "Unchanged"
                     /\ fs' = fs
                     /\ ops'[i] = NoOps
                ELSE \/ /\ result'[i].kind = "Removed"
                        /\ fs' = [fs EXCEPT ![f] = NoFile]
                     \/ /\ result'[i] = Failure("delete")
                        /\ fs' = fs
        /\ (Decided(i) /\ RemovalEntry(manifest[i])) =>
             /\ result'[i] = result[i]
             /\ ops'[i] = ops[i]
      ]_vars

(* A run that removed one file and failed to delete another *)
C5_Witness ==
    /\ task = "returned"
    /\ \E i, j \in 1..N :
         /\ RemovalEntry(manifest[i]) /\ RemovalEntry(manifest[j])
         /\ result[i].kind = "Removed"
         /\ fs0[manifest[i].filename] /= NoFile
         /\ fs[manifest[i].filename] = NoFile
         /\ result[j] = Failure("delete")
         /\ fs[manifest[j].filename] = fs0[manifest[j].filename]
         /\ fs[manifest[j].filename] /= NoFile

C7_ExistingFileIsUnchanged ==
    /\ [][\A i \in 1..N :
           LET e == manifest[i] IN
           (/\ FirstPoll(i)
            /\ ~RemovalEntry(e)
            /\ fs[e.filename] /= NoFile
            /\ \/ e.sha256 = None
               \/ SameDigest(fs[e.filename], Unwrap(e.sha256))) =>
             /\ pc'[i] = "counted"
             /\ IF e.sha256 = None
                THEN result'[i].kind = "Unchanged" /\ ops'[i] = NoOps
                ELSE \/ result'[i].kind = "Unchanged"
                     \/ result'[i] = Failure("read")
             /\ ops'[i].fetch = 0
             /\ ops'[i].write = 0
             /\ fs' = fs
        ]_vars
    /\ [](\A i \in 1..N :
           (~RemovalEntry(manifest[i]) /\ result[i].kind = "Unchanged") =>
             ops[i].fetch = 0 /\ ops[i].write = 0)

(* A returned run with an entry Unchanged by its digest, written in upper  *)
(* case, and an entry without digest Unchanged on a file of any content    *)
C7_Witness ==
    /\ task = "returned"
    /\ \E i, j \in 1..N :
         /\ ~RemovalEntry(manifest[i]) /\ ~RemovalEntry(manifest[j])
         /\ manifest[i].sha256 = Some(<<"A","1">>)
         /\ result[i].kind = "Unchanged"
         /\ ops[i].digest = 1
         /\ manifest[j].sha256 = None
         /\ fs[manifest[j].filename] = "y"
         /\ result[j].kind = "Unchanged"

(* C8: a non-REMOVE entry finds its file missing and sends its request.    *)
(* When the fetch fails (no body arrives) the entry is Failed, nothing is  *)
(* written and the folder is as it was.  When the body arrives the entry   *)
(* writes once: a failed write makes it Failed; otherwise the file holds   *)
(* the body, and with no digest expected, or the body's digest being the   *)
(* expected one, the entry is Downloaded (Failed with the read error when  *)
(* the written file could not be read back).  An entry is Downloaded in no *)
(* other way.                                                              *)
C8_MissingFileIsDownloaded ==
    [][\A i \in 1..N :
        LET e == manifest[i]
            f == manifest[i].filename
        IN
        /\ (FirstPoll(i) /\ ~RemovalEntry(e) /\ fs[f] = NoFile) =>
             /\ pc'[i] = "send"
             /\ ops'[i] = [NoOps EXCEPT !.fetch = 1]
             /\ fs' = fs
        /\ (pc[i] = "send" /\ pc'[i] /= "send") =>
             /\ pc'[i] = "bytes" \/ FetchEnds(i)
             /\ bytes'[i] = NoBytes
        /\ (FetchEnds(i) /\ bytes'[i] = NoBytes) =>
             /\ result'[i] \in {Failure("download"), Failure("response")}
             /\ ops'[i].write = 0
             /\ fs' = fs
        /\ (FetchEnds(i) /\ bytes'[i] /= NoBytes) =>
             /\ ops'[i].write = 1
             /\ OtherFilesKept(f)
             /\ \/ /\ result'[i] = Failure("write")
                   /\ fs'[f] \in {fs[f], Truncated}
                \/ /\ fs'[f] = bytes'[i]
                   /\ IF \/ e.sha256 = None
                         \/ SameDigest(bytes'[i], Unwrap(e.sha256))
                      THEN \/ result'[i].kind = "Downloaded"
                           \/ e.sha256 /= None /\ result'[i] = Failure("read")
                      ELSE result'[i].kind = "Failed"
        /\ (result[i].kind /= "Downloaded" /\ result'[i].kind = "Downloaded") =>
             /\ FetchEnds(i)
             /\ fs'[f] = bytes'[i]
      ]_vars

(* A returned run that downloaded a file with the expected digest, failed  *)
(* another entry on its fetch and created no file for it                   *)
C8_Witness ==
    /\ task = "returned"
    /\ \E i, j \in 1..N :
         /\ manifest[i].sha256 = Some(<<"A","1">>)
         /\ result[i].kind = "Downloaded"
         /\ fs0[manifest[i].filename] = NoFile
         /\ bytes[i] = "x"
         /\ fs[manifest[i].filename] = "x"
         /\ result[j] = Failure("response")
         /\ fs[manifest[j].filename] = NoFile

(* C9: the body of a download is written and its digest is not the         *)
(* expected one: the entry is Failed, the failed counter and not the       *)
(* downloaded counter is incremented, and the file holds the body.  There  *)
(* is no rollback: where no other entry names the file, it holds the body  *)
(* for the rest of the run.                                                *)
C9_DownloadMismatchKeepsFile ==
    /\ [][\A i \in 1..N :
           LET e == manifest[i] IN
           (/\ FetchEnds(i)
            /\ bytes'[i] /= NoBytes
            /\ result'[i] /= Failure("write")
            /\ IsSome(e.sha256)
            /\ ~SameDigest(bytes'[i], Unwrap(e.sha256))) =>
             /\ result'[i].kind = "Failed"
             /\ progress'.failed = progress.failed + 1
             /\ progress'.downloaded = progress.downloaded
             /\ fs'[e.filename] = bytes'[i]
        ]_vars
    /\ [](\A i \in 1..N :
           (/\ result[i] = Failure("mismatch")
            /\ ops[i].write = 1
            /\ OnlyEntryOfFile(i)) =>
             fs[manifest[i].filename] = bytes[i])

(* A returned run whose only entry was downloaded with another digest: it  *)
(* is counted as failed and the file is on disk                            *)
C9_Witness ==
    /\ task = "returned"
    /\ N = 1
    /\ manifest[1].sha256 = Some(<<"A","1">>)
    /\ fs0[manifest[1].filename] = NoFile
    /\ result[1] = Failure("mismatch")
    /\ bytes[1] = "y"
    /\ fs[manifest[1].filename] = "y"
    /\ progress.failed = 1
    /\ progress.downloaded = 0
    /\ Len(report.failed) = 1

---------------------------------------------------------------------------
(* C4: once the mods folder exists or has been created (the task is at the *)
(* stream), the run drains: it reaches the state in which every entry has  *)
(* its outcome and the report is assembled.                                *)
C4_RunDrains ==
    (task = "stream") ~>
      (/\ task \in {"report", "returned", "send_failed"}
       /\ \A i \in 1..N : pc[i] = "done" /\ Decided(i)
       /\ report = BuildReport(results)
       /\ Len(results) = N)

(* A run of two entries has drained although its first result was a failure *)
C4_Witness ==
    /\ task \in {"returned", "send_failed"}
    /\ Len(results) = 2
    /\ results[1].kind = "Failed"
    /\ report = BuildReport(results)

---------------------------------------------------------------------------
(* C10 as stated: after a run that returned a report with no failed entry, *)
(* a second run of the same manifest (no file named twice) ends with every *)
(* entry Unchanged, without a fetch, write or delete, and with the folder  *)
(* as the first run left it.                                               *)
C10_SecondRunAllUnchanged ==
    (run = 2 /\ prev.end = "clean" /\ task = "returned"
     /\ DistinctFilenames(manifest)) =>
      /\ \A i \in 1..N : result[i].kind = "Unchanged"
      /\ \A i \in 1..N : ops[i].fetch = 0 /\ ops[i].write = 0
                         /\ ops[i].delete = 0
      /\ fs = fs0

(* C10, amended: in a run that follows a run with no failed entry, at      *)
(* every moment no entry has fetched, written or deleted and the folder is *)
(* as the previous run left it; every outcome is Unchanged, except that an *)
(* entry with an expected digest is Failed when its file cannot be read    *)
(* for hashing.                                                            *)
C10_SecondRunChangesNothing ==
    (run >= 2 /\ prev.end = "clean" /\ DistinctFilenames(manifest)) =>
      /\ fs = fs0
      /\ \A i \in 1..N : ops[i].fetch = 0 /\ ops[i].write = 0
                         /\ ops[i].delete = 0
      /\ \A i \in 1..N : pc[i] \notin {"send", "bytes"}
      /\ \A i \in 1..N :
           Decided(i) =>
             \/ result[i].kind = "Unchanged"
             \/ /\ result[i] = Failure("read")
                /\ ~RemovalEntry(manifest[i])
                /\ IsSome(manifest[i].sha256)

(* The first run downloaded one file and removed another; the second run   *)
(* returned with both entries Unchanged, one of them by its digest         *)
C10_Witness ==
    /\ run = 2
    /\ prev = [end |-> "clean", changes |-> 2]
    /\ task = "returned"
    /\ N = 2
    /\ \A i \in 1..N : result[i].kind = "Unchanged"
    /\ \E i \in 1..N : ops[i].digest = 1
    /\ \E i \in 1..N : RemovalEntry(manifest[i])

---------------------------------------------------------------------------
(* The event stream *)

IsPrefix(s, t) == Len(s) <= Len(t) /\ \A k \in 1..Len(s) : s[k] = t[k]

(* The per-entry event that belongs to a collected result *)
EventOf(r) == [kind |-> r.kind, filename |-> r.entry.filename, error |-> r.msg]

FinishedEvent == [kind |-> "Finished", report |-> report]

(* What the run has passed to send so far: the events of the collected     *)
(* results in their order, the event of the entry that is between its send *)
(* and its return, and the terminal event once the function has returned   *)
EmittedStream ==
    [k \in 1..Len(results) |-> EventOf(results[k])]
    \o (IF cur /= 0 /\ pc[cur] \in {"emitted", "lastset"}
        THEN <<EntryEvent(cur)>> ELSE <<>>)
    \o (IF task = "returned" THEN <<FinishedEvent>> ELSE <<>>)

C12_AbsentObserverIsHarmless ==
    (/\ ~event_tx \/ ~rx_alive
     /\ task \in {"returned", "send_failed"}) =>
      /\ \A i \in 1..N : pc[i] = "done" /\ Decided(i)
      /\ Processed(progress) = N
      /\ progress.processed = N
      /\ task = "returned"
      /\ report = BuildReport(results)

---------------------------------------------------------------------------
(* C13: the mods folder is missing and cannot be created.  The run is      *)
(* aborted, and it is aborted only so; at the abort no entry has been      *)
(* admitted or resolved, no fetch, write, delete or digest has happened,   *)
(* the counters are 0, no result, report or event exists, the folder is    *)
(* untouched, and no step of the run follows.                              *)
C13_FolderCreationFailureAborts ==
    /\ (task /= "start" /\ ~modsDir) => task = "aborted"
    /\ task = "aborted" =>
         /\ ~modsDir
         /\ \A i \in 1..N : pc[i] = "queued" /\ result[i] = NoResult
                            /\ ops[i] = NoOps /\ bytes[i] = NoBytes
         /\ progress = NewProgress(N)
         /\ last_mod = None
         /\ results = <<>>
         /\ report = EmptyReport
         /\ events = <<>>
         /\ fs = fs0
         /\ ~ENABLED Next

(* The run of a manifest of two entries was aborted *)
C13_Witness ==
    /\ task = "aborted"
    /\ N = 2
    /\ ~modsDir

---------------------------------------------------------------------------
(* C14: the manifest source cannot be obtained: the file is unreadable,    *)
(* the fetch fails, or neither argument is given.  Then loading fails and  *)
(* the program stops: nothing is ever done beyond the load, and in the     *)
(* failed state no progress state and no channel exist, no entry exists or *)
(* was processed, and the mods folder and its files are as they were.      *)
C14_LoadFailureStopsTheProgram ==
    /\ [](~source.obtained => task \in {"load", "load_failed"})
    /\ [](task = "load_failed" =>
            /\ ~source.obtained
            /\ progress = NoProgress
            /\ ~event_tx
            /\ manifest = <<>>
            /\ results = <<>> /\ events = <<>> /\ report = EmptyReport
            /\ fs = fs0
            /\ ~ENABLED NextMain)
    /\ [][task = "load" /\ ~source.obtained =>
            task' = "load_failed" /\ UNCHANGED <<fs, modsDir>>]_vars

(* Fetching the manifest has failed, on a folder that holds a file *)
C14_Witness ==
    /\ task = "load_failed"
    /\ source.given = "url"
    /\ modsDir
    /\ fs[<<"a">>] = "x"

---------------------------------------------------------------------------
(* The progress state *)

Counters == {"downloaded", "unchanged", "removed", "failed", "processed"}

(* C15: in a run, total never changes and is the length of the manifest;   *)
(* no step decreases one of the four outcome counters or the processed     *)
(* counter; and in every state the four outcome counters sum to at most    *)
(* total (and so does the processed counter).                              *)
C15_CountersGrowUpToTotal ==
    /\ [][/\ progress'.total = progress.total
          /\ \A c \in Counters : progress'[c] >= progress[c]]_vars
    /\ [](/\ progress.total = N
          /\ Processed(progress) <= progress.total
          /\ progress.processed <= progress.total)

(* In the middle of a run one entry has been counted as downloaded and     *)
(* another as failed                                                       *)
C15_Witness ==
    /\ task = "stream"
    /\ progress.total = 2
    /\ progress.downloaded = 1
    /\ progress.failed = 1
    /\ progress.processed = 1

(* C16 as stated: in every state the processed counter field equals the    *)
(* sum of the four outcome counters, which is what processed() returns.    *)
C16_ProcessedFieldIsTheSum ==
    progress.processed = Processed(progress)

(* C16, amended: processed() is the sum of the four outcome counters and   *)
(* counts the entries whose outcome is decided.  The processed field never *)
(* exceeds that sum and is behind it by one exactly while an entry is      *)
(* between the increment of its outcome counter and the increment of the   *)
(* processed field; once the stream has ended both are N.                  *)
C16_ProcessedFieldLagsByOne ==
    /\ Processed(progress) = Cardinality({i \in 1..N : Decided(i)})
    /\ progress.processed = Cardinality({i \in 1..N : pc[i] = "done"})
    /\ IF cur /= 0 /\ pc[cur] \in {"counted", "emitted", "lastset"}
       THEN Processed(progress) = progress.processed + 1
       ELSE Processed(progress) = progress.processed
    /\ task \in {"report", "returned", "send_failed"} =>
         progress.processed = N /\ Processed(progress) = N

(* The second entry of a run has its outcome counted and its event sent,   *)
(* and the processed field still counts one entry                          *)
C16_Witness ==
    /\ task = "stream"
    /\ cur /= 0
    /\ pc[cur] = "lastset"
    /\ Processed(progress) = 2
    /\ progress.processed = 1

---------------------------------------------------------------------------
(* C17: a Finished event is in the channel only when every entry's future  *)
(* has returned, all N outcome and processed increments have happened and  *)
(* all N per-entry events are in front of it; there is never more than one *)
(* Finished event; and its report is, bucket by bucket, the report that    *)
(* sync_all_from_entries has returned, built from all N results.           *)
C17_TerminalEventIsLastAndCarriesTheReport ==
    /\ Cardinality({k \in 1..Len(events) : events[k].kind = "Finished"}) <= 1
    /\ \A k \in 1..Len(events) :
         events[k].kind = "Finished" =>
           /\ \A i \in 1..N : pc[i] = "done"
           /\ Processed(progress) = N
           /\ progress.processed = N
           /\ k = N + 1
           /\ \A j \in 1..N : events[j].kind \in Kinds
           /\ task = "returned"
           /\ Len(results) = N
           /\ \A b \in {"downloaded", "unchanged", "removed", "failed"} :
                events[k].report[b] = report[b]
           /\ report = BuildReport(results)

(* The terminal event of a run that removed one file and kept another *)
C17_Witness ==
    /\ Len(events) = 3
    /\ events[3].kind = "Finished"
    /\ Len(events[3].report.removed) = 1
    /\ Len(events[3].report.unchanged) = 1

---------------------------------------------------------------------------
(* C18: last_mod is absent as long as no entry has its outcome; when it is *)
(* present it is the filename of an entry whose outcome is counted and     *)
(* whose event is sent, namely of the entry that set it last; and when the *)
(* stream has ended it is the filename of the result collected last, which *)
(* is the filename of the last per-entry event.                            *)
C18_LastModIsTheLastFinished ==
    /\ (\A i \in 1..N : ~Decided(i)) => last_mod = None
    /\ IsSome(last_mod) =>
         \E i \in 1..N : /\ pc[i] \in {"lastset", "done"}
                         /\ manifest[i].filename = Unwrap(last_mod)
    /\ last_mod =
         IF cur /= 0 /\ pc[cur] = "lastset"
         THEN Some(manifest[cur].filename)
         ELSE IF results /= <<>>
              THEN Some(results[Len(results)].entry.filename)
              ELSE None
    /\ (task \in {"report", "returned"} /\ N > 0) =>
         /\ last_mod = Some(results[N].entry.filename)
         /\ last_mod = Some(events[N].filename)

(* The first entry of the manifest finished last, after the second one,    *)
(* and its filename is the last processed mod of the returned run.         *)
C18_Witness ==
    /\ task = "returned"
    /\ N = 2
    /\ manifest[1].filename /= manifest[2].filename
    /\ results[2].entry = manifest[1]
    /\ last_mod = Some(manifest[1].filename)
    /\ result[1].kind = "Failed"

---------------------------------------------------------------------------
(* The parser *)

Blank(line) == \A k \in 1..Len(line) : line[k] \in Whitespace

(* The first character that is not white space is `#` *)
CommentLine(line) ==
    \E k \in 1..Len(line) :
        /\ line[k] = "#"
        /\ \A j \in 1..(k - 1) : line[j] \in Whitespace

(* The number of pipe-delimited fields: one more than the number of pipes *)
FieldCount(line) == Cardinality({k \in 1..Len(line) : line[k] = "|"}) + 1

(* The lines the parser is said to keep *)
Kept(line) == ~Blank(line) /\ ~CommentLine(line) /\ FieldCount(line) >= 3

(* The kept lines among the lines consumed so far, and the j-th of them *)
KeptSoFar == {k \in 1..text.parsed : Kept(text.lines[k])}

NthKept(j) ==
    CHOOSE k \in KeptSoFar : Cardinality({m \in KeptSoFar : m <= k}) = j

(* The line an entry is written back as *)
Serialize(e) ==
    e.category \o <<"|">> \o e.filename \o <<"|">> \o e.url
    \o (IF IsSome(e.sha256) THEN <<"|">> \o Unwrap(e.sha256) ELSE <<>>)

(* C19: a line that is blank, a comment after trimming, or of fewer than   *)
(* 3 pipe-delimited fields yields no entry, every other line yields one    *)
(* entry, and after any number of lines the entries are those of the kept  *)
(* lines, in the order of the lines.                                       *)
C19_ParserKeepsWellFormedLinesInOrder ==
    /\ [][/\ text'.parsed = text.parsed + 1
          /\ LET line == text.lines[text'.parsed] IN
             IF Kept(line)
             THEN /\ Len(manifest') = Len(manifest) + 1
                  /\ SubSeq(manifest', 1, Len(manifest)) = manifest
             ELSE manifest' = manifest]_vars
    /\ [][/\ Len(manifest') = Cardinality(KeptSoFar')
          /\ \A j \in 1..Len(manifest') :
               Some(manifest'[j]) = ParseLine(text.lines[NthKept(j)'])
          /\ text'.lines = text.lines]_vars

(* A text of three lines is parsed: a comment, an entry with a digest and  *)
(* an entry without, in this order                                         *)
C19_Witness ==
    /\ text.parsed = 3
    /\ CommentLine(text.lines[1])
    /\ Len(manifest) = 2
    /\ IsSome(manifest[1].sha256)
    /\ manifest[2].sha256 = None
    /\ manifest[1].category = <<"A">>

(* C20 as stated: every entry the parser has produced, written back as     *)
(* category|filename|url, with |digest when it has one, parses to itself.  *)
C20_RoundTrip ==
    \A j \in 1..Len(manifest) :
        ParseLine(Serialize(manifest[j])) = Some(manifest[j])

(* C20, amended: an entry the parser has produced, written back, parses to *)
(* itself unless its digest ends in white space or is only white space;    *)
(* such a digest comes only from a line of more than 4 fields, so every    *)
(* entry of a line of 3 or 4 fields parses to itself.                      *)
C20_RoundTripUnlessDigestEndsInSpace ==
    \A j \in 1..Len(manifest) :
        LET e == manifest[j]
            padded == /\ IsSome(e.sha256)
                      /\ Unwrap(e.sha256) /= <<>>
                      /\ Unwrap(e.sha256)[Len(Unwrap(e.sha256))] \in Whitespace
        IN  /\ ~padded => ParseLine(Serialize(e)) = Some(e)
            /\ padded => FieldCount(text.lines[NthKept(j)]) > 4
            /\ padded => ParseLine(Serialize(e)) /= Some(e)

(* An entry with a category that ends in a space, a url that starts with   *)
(* one and a digest is parsed from a line of four fields and parses to     *)
(* itself when written back                                                *)
C20_Witness ==
    /\ Len(manifest) = 1
    /\ text.parsed = 1
    /\ FieldCount(text.lines[1]) = 4
    /\ manifest[1].category = <<"a", " ">>
    /\ manifest[1].url = <<" ", "c">>
    /\ manifest[1].sha256 = Some(<<"d">>)
    /\ ParseLine(Serialize(manifest[1])) = Some(manifest[1])

---------------------------------------------------------------------------
(* The spellings of an entry *)

SameExpectedDigest(d1, d2) ==
    IF IsSome(d1) /\ IsSome(d2)
    THEN Lowered(Unwrap(d1)) = Lowered(Unwrap(d2))
    ELSE d1 = d2

(* The entries that differ from e only in the spelling of the category and *)
(* of the digest: any non-REMOVE category for a non-REMOVE category, any   *)
(* letter case of REMOVE for REMOVE, any letter case of the digest         *)
Variants(e) ==
    { v \in AnyEntries :
        /\ v.filename = e.filename
        /\ v.url = e.url
        /\ RemovalEntry(v) = RemovalEntry(e)
        /\ SameExpectedDigest(v.sha256, e.sha256) }

(* C21: every step that resolves an entry is the step the code takes for   *)
(* each other spelling of the entry under the same filesystem and the same *)
(* fetch behaviour: the same branch (removal or not), for a present file   *)
(* the outcome of the check of that spelling, for a fetched body the file  *)
(* and the outcome of writing and verifying for that spelling.             *)
C21_SpellingDoesNotMatter ==
    [][\A i \in 1..N : \A v \in Variants(manifest[i]) :
         LET e == manifest[i]
             f == manifest[i].filename
         IN
         /\ IsRemove(v) = IsRemove(e)
         /\ IsRemove(e) = RemovalEntry(e)
         /\ (FirstPoll(i) /\ ~RemovalEntry(e) /\ fs[f] /= NoFile) =>
              /\ fs' = fs
              /\ \E rd \in BOOLEAN :
                   /\ result'[i].kind = CheckExisting(v, rd).kind
                   /\ result'[i].msg = CheckExisting(v, rd).msg
                   /\ ops'[i].digest = CheckExisting(v, rd).digest
         /\ (FirstPoll(i) /\ ~RemovalEntry(e) /\ fs[f] = NoFile) =>
              pc'[i] = "send" /\ ops'[i].fetch = 1 /\ fs' = fs
         /\ (FetchEnds(i) /\ bytes'[i] /= NoBytes) =>
              \E wr \in WriteEnds, rd \in BOOLEAN :
                   LET w == WriteAndVerify(v, bytes'[i], wr, rd) IN
                   /\ result'[i].kind = w.kind
                   /\ result'[i].msg = w.msg
                   /\ fs'[f] = w.file
                   /\ ops'[i].digest = w.digest
      ]_vars

(* An entry labelled Optional with the digest of "x" in lower case, which *)
(* has several other spellings, has downloaded "x"                         *)
C21_Witness ==
    /\ task = "returned"
    /\ N = 1
    /\ manifest[1].category = <<"O","p","t","i","o","n","a","l">>
    /\ manifest[1].sha256 = Some(<<"a","1">>)
    /\ result[1].kind = "Downloaded"
    /\ fs0[manifest[1].filename] = NoFile
    /\ fs[manifest[1].filename] = "x"
    /\ \E v \in Variants(manifest[1]) :
          v.category = REQUIRED /\ v.sha256 = Some(<<"A","1">>)

---------------------------------------------------------------------------
(* C22: no step brings an entry's count of fetches, of writes, of deletes  *)
(* or of digest computations above one, and once an entry's outcome is     *)
(* Failed no step counts an operation for it, changes its outcome or its   *)
(* body, or puts it back to a place where it fetches; where no other entry *)
(* names its file, the file is not touched after the failure.              *)
C22_NoRetry ==
    [][\A i \in 1..N :
         /\ ops'[i].fetch <= 1 /\ ops'[i].write <= 1
         /\ ops'[i].delete <= 1 /\ ops'[i].digest <= 1
         /\ result[i].kind = "Failed" =>
              /\ ops'[i] = ops[i]
              /\ result'[i] = result[i]
              /\ bytes'[i] = bytes[i]
              /\ pc'[i] \in {"counted", "emitted", "lastset", "done"}
              /\ OnlyEntryOfFile(i) =>
                   fs'[manifest[i].filename] = fs[manifest[i].filename]
      ]_vars

(* A returned run in which one entry failed after its one fetch and its    *)
(* one write, and the other after its one delete                           *)
C22_Witness ==
    /\ task = "returned"
    /\ N = 2
    /\ \E i, j \in 1..N :
         /\ result[i].kind = "Failed"
         /\ ops[i].fetch = 1 /\ ops[i].write = 1
         /\ result[j].kind = "Failed"
         /\ ops[j].delete = 1

---------------------------------------------------------------------------
(* C23: hash mode is independent of any run.  When --hash FILE is given,   *)
(* the only step the program ever takes is the one of hash mode: it        *)
(* prints the digest of the file and returns Ok when the file can be read, *)
(* it returns an error and prints nothing when the file is missing, and   *)
(* either way no manifest is loaded, no progress state and no channel is   *)
(* created, no run is started, and the mods folder and its files are as    *)
(* they were.                                                              *)
C23_HashModeStandsAlone ==
    [][IsSome(main.hash) =>
         LET content == fs[Unwrap(main.hash)] IN
         /\ main.pc = "args"
         /\ main'.pc \in {"done", "failed"}
         /\ main'.pc = "done" =>
               /\ content /= NoFile
               /\ main'.stdout = HashLine(HexDigest(content))
         /\ main'.pc = "failed" => main'.stdout = NoOutput
         /\ content = NoFile => main'.pc = "failed"
         /\ main'.hash = main.hash
         /\ manifest' = <<>> /\ source' = source /\ text' = NoText
         /\ progress' = NoProgress /\ last_mod' = None
         /\ event_tx' = FALSE /\ rx_alive' = FALSE /\ events' = <<>>
         /\ task' = "load" /\ pc' = <<>> /\ results' = <<>>
         /\ report' = EmptyReport
         /\ fs' = fs /\ modsDir' = modsDir]_vars

C23_Witness ==
    /\ main.hash = Some(<<"b">>)
    /\ main.pc = "done"
    /\ main.stdout = HashLine(<<"a","1">>)
    /\ fs[<<"b">>] = "x"
    /\ source.obtained
    /\ task = "load"

---------------------------------------------------------------------------
(* C24: in CLI mode, once the run has completed (processed equals total)   *)
(* the program leaves its polling loop and exits: main prints the final   *)
(* "Exiting ModSync" line and returns Ok, however many entries failed.    *)
C24_CliExitsAfterTheRun ==
    (main.cli /\ main.pc \in {"cli", "sleep"}
              /\ Processed(progress) = progress.total)
        ~> (main.pc = "done" /\ main.stdout = ExitingLine)

---------------------------------------------------------------------------
(* The states entry i alone can leave its file in, given what the file    *)
(* was at the start of the run: gone after a removal, the body after a    *)
(* write, what it was or a truncated file after a failed write, and what  *)
(* it was otherwise                                                        *)
FileStatesOf(i) ==
    LET was == fs0[manifest[i].filename] IN
    IF result[i].kind = "Removed" THEN {NoFile}
    ELSE IF ops[i].write = 0 THEN {was}
    ELSE IF result[i].msg = "write" THEN {was, Truncated}
    ELSE {bytes[i]}

ActsIn(i) == ops'[i] /= ops[i] \/ result'[i] /= result[i] \/ bytes'[i] /= bytes[i]

(* C25: with pairwise distinct filenames, a step in which an entry fetches, *)
(* writes, deletes, hashes or gets its outcome leaves every file but the   *)
(* entry's own as it is and is a step of that entry alone; a file changes  *)
(* only in a step of the entry naming it; a file no entry names never      *)
(* changes; and after every step each named file is in a state given by    *)
(* its own entry's outcome, body and operations and by what the file was   *)
(* when the run started, whatever the other entries have done.             *)
C25_DistinctFilesAreIndependent ==
    [][DistinctFilenames(manifest) =>
         /\ \A i \in 1..N :
               /\ ActsIn(i) =>
                     /\ OtherFilesKept(manifest[i].filename)
                     /\ \A j \in 1..N \ {i} : ~ActsIn(j)
               /\ fs'[manifest[i].filename] \in FileStatesOf(i)'
         /\ \A f \in Filenames :
               /\ fs'[f] /= fs[f] =>
                     \E i \in 1..N : manifest[i].filename = f /\ ActsIn(i)
               /\ (\A i \in 1..N : manifest[i].filename /= f) => fs'[f] = fs0[f]
      ]_vars

(* Two entries naming different files, resolved one between the steps of  *)
(* the other: the removal of "b" began and ended while the download of    *)
(* "a" was awaiting the network                                            *)
C25_Witness ==
    /\ task = "returned"
    /\ N = 2
    /\ manifest[1].filename = <<"a">> /\ manifest[2].filename = <<"b">>
    /\ result[1].kind = "Downloaded" /\ result[2].kind = "Removed"
    /\ results[1].entry = manifest[2]
    /\ fs0[<<"a">>] = NoFile /\ fs0[<<"b">>] = "y"
    /\ fs[<<"a">>] = "x" /\ fs[<<"b">>] = NoFile

---------------------------------------------------------------------------
(* Two entries, neither a removal, that name the same file *)
Duplicates(i, j) ==
    /\ i /= j
    /\ manifest[i].filename = manifest[j].filename
    /\ ~RemovalEntry(manifest[i]) /\ ~RemovalEntry(manifest[j])

(* C26: nothing defends against duplicate filenames.  For two entries,     *)
(* neither a removal, that name the same file: while one awaits the        *)
(* network and the file is missing, the other, once it is its turn to be   *)
(* polled, can start its own fetch of the file; when both have fetched,    *)
(* each that is Downloaded has written the path once, and the file, when   *)
(* both are Downloaded and no third entry names it, holds the body of one  *)
(* of them; and when the run returns, both entries are in the bucket of    *)
(* their outcome as often as the manifest holds them and the four buckets  *)
(* hold N entries.                                                         *)
C26_DuplicatesAreNotDefendedAgainst ==
    \A i, j \in 1..N :
      Duplicates(i, j) =>
        /\ ( /\ pc[i] \in {"send", "bytes"}
             /\ pc[j] = "admitted"
             /\ j = Least({k \in 1..N : pc[k] = "admitted"})
             /\ Idle
             /\ ~Exists(manifest[j].filename) ) => ENABLED StartDownload(j)
        /\ (ops[i].fetch = 1 /\ ops[j].fetch = 1) =>
             /\ result[i].kind = "Downloaded" => ops[i].write = 1
             /\ result[j].kind = "Downloaded" => ops[j].write = 1
             /\ ( /\ result[i].kind = "Downloaded"
                  /\ result[j].kind = "Downloaded"
                  /\ \A k \in 1..N \ {i, j} :
                        manifest[k].filename /= manifest[i].filename ) =>
                  fs[manifest[i].filename] \in {bytes[i], bytes[j]}
             /\ task = "returned" =>
                  /\ \A k \in {i, j} :
                        Count(manifest[k], BucketOf(report, result[k].kind)) =
                          Cardinality({n \in 1..N :
                                         /\ manifest[n] = manifest[k]
                                         /\ result[n].kind = result[k].kind})
                  /\ Len(report.downloaded) + Len(report.unchanged)
                       + Len(report.removed) + Len(report.failed) = N

(* The execution of the claim: the file was missing, both entries fetched  *)
(* and wrote it and both are Downloaded, both in the downloaded bucket;    *)
(* the file holds the body the first entry received, which is not the one  *)
(* the second entry's digest expects                                       *)
C26_Witness ==
    /\ task = "returned"
    /\ N = 2
    /\ Duplicates(1, 2)
    /\ fs0[manifest[1].filename] = NoFile
    /\ ops[1].fetch = 1 /\ ops[2].fetch = 1
    /\ ops[1].write = 1 /\ ops[2].write = 1
    /\ result[1].kind = "Downloaded" /\ result[2].kind = "Downloaded"
    /\ Len(report.downloaded) = 2
    /\ bytes[1] = "y" /\ bytes[2] = "x"
    /\ fs[manifest[1].filename] = "y"

---------------------------------------------------------------------------
(* The place of entry e in a bucket, and the place of its result among the *)
(* collected results (no line of the manifest is repeated)                 *)
PlaceIn(seq, e) == CHOOSE k \in DOMAIN seq : seq[k] = e

Completion(e) == CHOOSE k \in DOMAIN results : results[k].entry = e

(* C27: the per-entry events are delivered in completion order: the k-th   *)
(* event the observer has received is the event of the k-th entry to       *)
(* finish.  Once the report is returned, each bucket holds the entries of  *)
(* its outcome, and any two entries of one bucket stand in the bucket in   *)
(* the order in which their events stand in the stream.                    *)
C27_BucketsFollowCompletionOrder ==
    /\ \A k \in 1..Len(results) :
          /\ k <= Len(events)
          /\ events[k] = EventOf(results[k])
    /\ task = "returned" =>
          \A kind \in Kinds :
            LET bucket == BucketOf(report, kind) IN
            /\ \A k \in 1..Len(results) :
                  results[k].kind = kind <=>
                    \E a \in DOMAIN bucket : bucket[a] = results[k].entry
            /\ \A a, b \in DOMAIN bucket :
                  a < b <=> Completion(bucket[a]) < Completion(bucket[b])

(* Two entries of the downloaded bucket in the reverse of manifest order:  *)
(* the second line's file arrived first, its event came first and it       *)
(* stands first in the bucket                                              *)
C27_Witness ==
    /\ task = "returned"
    /\ N = 2
    /\ manifest[1].filename /= manifest[2].filename
    /\ report.downloaded = <<manifest[2], manifest[1]>>
    /\ events[1] = [kind |-> "Downloaded", filename |-> manifest[2].filename,
                    error |-> ""]
    /\ events[2] = [kind |-> "Downloaded", filename |-> manifest[1].filename,
                    error |-> ""]

---------------------------------------------------------------------------
(* The per-entry events of a kind that the channel holds *)
EventsOfKind(kind) == Cardinality({k \in 1..Len(events) : events[k].kind = kind})

(* C28: the completion of an entry takes its four steps in a fixed order.  *)
(* The step that gives the entry its outcome increments that outcome's     *)
(* counter and nothing else of the progress state, and sends nothing; the  *)
(* next step of the entry sends its event; the next sets the last          *)
(* filename; the last increments the processed field.  So in every state   *)
(* the events of each kind are at most as many as that kind's counter      *)
(* says, and the processed field is at most the sum of the four outcome    *)
(* counters.                                                               *)
C28_CompletionStepsInOrder ==
    /\ [][\A i \in 1..N :
            pc'[i] /= pc[i] =>
              /\ pc'[i] = "counted" =>
                    /\ pc[i] \in {"admitted", "send", "bytes"}
                    /\ progress' = [progress EXCEPT
                                      ![CounterOf(result'[i].kind)] = @ + 1]
                    /\ events' = events
                    /\ last_mod' = last_mod
              /\ pc'[i] = "emitted" =>
                    /\ pc[i] = "counted"
                    /\ events' = Append(events, EntryEvent(i))
                    /\ progress' = progress
                    /\ last_mod' = last_mod
              /\ pc'[i] = "lastset" =>
                    /\ pc[i] = "emitted"
                    /\ last_mod' = Some(manifest[i].filename)
                    /\ progress' = progress
                    /\ events' = events
              /\ pc'[i] = "done" =>
                    /\ pc[i] = "lastset"
                    /\ progress' = [progress EXCEPT !.processed = @ + 1]
                    /\ events' = events
                    /\ last_mod' = last_mod]_vars
    /\ [](/\ \A kind \in Kinds :
               EventsOfKind(kind) <= progress[CounterOf(kind)]
          /\ progress.processed <= Processed(progress))

(* The second entry to finish has failed and is counted; its event is not  *)
(* sent yet, and the processed field still counts one entry                *)
C28_Witness ==
    /\ cur /= 0
    /\ pc[cur] = "counted"
    /\ result[cur].kind = "Failed"
    /\ progress.failed = 1
    /\ EventsOfKind("Failed") = 0
    /\ Len(events) = 1
    /\ progress.processed = 1
    /\ Processed(progress) = 2

---------------------------------------------------------------------------
Started(k) == pc[k] /= "queued"

Min(a, b) == IF a < b THEN a ELSE b

(* C29: entries are started in manifest order: entry k is started only     *)
(* when entry k-1 is.  No entry is polled before the first min(N, 8)       *)
(* entries are all started, so these are in flight together.  The          *)
(* entries started are never more than 8 plus the entries whose future has *)
(* returned, so an entry at position 9 or later is started only after an   *)
(* earlier entry has its outcome.  And the pool is kept full: an entry     *)
(* takes a step only when no entry is waiting or 8 are in flight.          *)
C29_AdmissionInManifestOrder ==
    /\ [](/\ \A k \in 2..N : Started(k) => Started(k - 1)
          /\ (\E i \in 1..N : pc[i] \notin {"queued", "admitted"}) =>
                \A k \in 1..Min(N, PoolLimit) : Started(k)
          /\ Cardinality({k \in 1..N : Started(k)}) <=
                PoolLimit + Cardinality({j \in 1..N : pc[j] = "done"})
          /\ \A k \in (PoolLimit + 1)..N :
                Started(k) => \E j \in 1..(k - 1) : Decided(j) /\ pc[j] = "done")
    /\ [][\A i \in 1..N :
            (Started(i) /\ pc'[i] /= pc[i]) =>
               Queued = {} \/ Cardinality(InFlight) = PoolLimit]_vars

(* The ninth entry has just been started: one of the first eight has       *)
(* returned, the other seven are in flight with it, none of them polled    *)
(* yet or awaiting the network                                             *)
C29_Witness ==
    /\ N > PoolLimit
    /\ pc[PoolLimit + 1] = "admitted"
    /\ Cardinality({j \in 1..PoolLimit : pc[j] = "done"}) = 1
    /\ Cardinality(InFlight) = PoolLimit
    /\ \A k \in (PoolLimit + 2)..N : ~Started(k)

---------------------------------------------------------------------------
---------------------------------------------------------------------------
(* The n-th pipe-delimited field of a string: what stands between its      *)
(* (n-1)-th and its n-th pipe, or its end                                  *)
Pipes(str) == {k \in 1..Len(str) : str[k] = "|"}

NthPipe(str, n) ==
    IF n = 0 THEN 0
    ELSE IF n > Cardinality(Pipes(str)) THEN Len(str) + 1
    ELSE CHOOSE k \in Pipes(str) :
            Cardinality({j \in Pipes(str) : j <= k}) = n

Field(str, n) == SubSeq(str, NthPipe(str, n - 1) + 1, NthPipe(str, n) - 1)

(* C31: the entry of a line has no digest exactly when the line has        *)
(* exactly 3 pipe-delimited fields; with 4 fields or more its digest is    *)
(* present and is the fourth field of the trimmed line, empty when that    *)
(* field is empty, whatever follows the fourth field.  In the run, an      *)
(* entry that is not a removal, has the empty digest and finds its file    *)
(* computes the digest of the file and fails (on the mismatch, or on the   *)
(* read), the folder as it was; with no digest it is Unchanged with no     *)
(* digest computed.                                                        *)
C31_DigestIsTheFourthField ==
    [][IF task = "parse"
       THEN text'.parsed = text.parsed + 1 =>
              LET line == text.lines[text'.parsed] IN
              Kept(line) =>
                LET e == manifest'[Len(manifest')] IN
                /\ e.sha256 = None <=> FieldCount(line) = 3
                /\ FieldCount(line) >= 4 =>
                      e.sha256 = Some(Field(Trim(line), 4))
       ELSE \A i \in 1..N :
              LET e == manifest[i] IN
              (FirstPoll(i) /\ ~RemovalEntry(e) /\ Exists(e.filename)) =>
                 /\ e.sha256 = Some(<<>>) =>
                       /\ ops'[i].digest = 1
                       /\ result'[i] \in {Failure("mismatch"), Failure("read")}
                       /\ fs' = fs
                 /\ e.sha256 = None =>
                       /\ ops'[i].digest = 0
                       /\ result'[i].kind = "Unchanged"
      ]_vars

(* The line REQUIRED|a|u| was parsed to an entry with the empty digest;    *)
(* its file exists, its digest was computed and the entry failed on the    *)
(* mismatch                                                                *)
C31_Witness ==
    /\ task = "returned"
    /\ text.lines[1] = REQUIRED \o Pipe \o <<"a">> \o Pipe \o <<"u">> \o Pipe
    /\ N = 1
    /\ manifest[1].sha256 = Some(<<>>)
    /\ fs0[<<"a">>] = "x"
    /\ result[1] = Failure("mismatch")
    /\ ops[1] = [NoOps EXCEPT !.digest = 1]
    /\ fs = fs0

---------------------------------------------------------------------------
(* A category that reads REMOVE only once the white space around it is     *)
(* taken away                                                              *)
PaddedRemove(e) ==
    /\ Trim(e.category) /= e.category
    /\ Lowered(Trim(e.category)) = Lowered(REMOVE)

---------------------------------------------------------------------------
(* The empty manifest *)

EmptyTerminalEvent == [kind |-> "Finished", report |-> EmptyReport]

(* C33 as stated: a run of the empty manifest, once it has ended, has the  *)
(* mods folder in place and has emitted exactly one event, the terminal    *)
(* event with four empty buckets; all counters and total are 0 and the     *)
(* last filename is absent.                                                *)
C33_EmptyRunEmitsOneTerminalEvent ==
    (N = 0 /\ Ended) =>
      /\ modsDir
      /\ events = <<EmptyTerminalEvent>>
      /\ progress = NewProgress(0)
      /\ last_mod = None

(* C33, amended: a run of the empty manifest begins with the step that     *)
(* ensures the mods folder.  When the folder is missing and cannot be      *)
(* created the run is aborted with the folder missing and no event at all. *)
(* Otherwise the folder exists from then on and the run returns, having    *)
(* emitted exactly one event, the terminal event with four empty buckets.  *)
(* In every state of such a run there is no per-entry event, all counters  *)
(* and total are 0, the last filename is absent and no file has changed.   *)
C33_EmptyRunUnlessFolderFails ==
    N = 0 =>
      /\ \A k \in 1..Len(events) : events[k] = EmptyTerminalEvent
      /\ Len(events) <= 1
      /\ progress = NewProgress(0)
      /\ progress.total = 0 /\ Processed(progress) = 0
      /\ last_mod = None
      /\ fs = fs0
      /\ task \in {"start", "stream", "report", "returned", "aborted"}
      /\ task \in {"stream", "report", "returned"} => modsDir
      /\ task = "aborted" => ~modsDir /\ events = <<>>
      /\ task = "returned" =>
            /\ events = <<EmptyTerminalEvent>>
            /\ report = EmptyReport
      /\ task /= "returned" => events = <<>>

(* The run of the empty manifest has returned: the folder is there, the    *)
(* one event is the terminal event with the empty report                   *)
C33_Witness ==
    /\ N = 0
    /\ task = "returned"
    /\ modsDir
    /\ events = <<EmptyTerminalEvent>>
    /\ report = EmptyReport
    /\ progress = NewProgress(0)
    /\ last_mod = None

---------------------------------------------------------------------------
(* The splash *)

(* The terminal events among the events the splash has drained, and the    *)
(* report of the first of them                                             *)
TerminalsReceived ==
    {k \in 1..splash.read : events[k].kind = "Finished"}

FirstReportReceived ==
    events[CHOOSE k \in TerminalsReceived :
              \A j \in TerminalsReceived : k <= j].report

(* C34 as stated: the splash is finished exactly when it has received a    *)
(* terminal event, it never goes back to processing, and once finished it  *)
(* holds the report of the first terminal event it has received and flags  *)
(* changes exactly when a bucket of that report other than unchanged is    *)
(* not empty.                                                              *)
C34_SplashKeepsTheFirstReport ==
    /\ splash.finished <=> TerminalsReceived /= {}
    /\ splash.finished =>
          /\ splash.report = Some(FirstReportReceived)
          /\ splash.has_changes <=> HasChanges(FirstReportReceived)

(* C34, amended: the splash is finished exactly when it has received a     *)
(* terminal event and it never goes back to processing.  Once finished it  *)
(* flags changes exactly when the downloaded, removed or failed bucket of  *)
(* the first terminal event's report is not empty, which is when some      *)
(* entry's outcome is not Unchanged, and the flag stays.  It holds that     *)
(* report until a click on the finished splash with changes hands the      *)
(* report to the transaction log; from then on it holds none.  The report  *)
(* it holds or has handed over is always that of the first terminal event. *)
C34_SplashKeepsTheFirstReportUntilHandedOver ==
    /\ [](/\ splash.finished <=> TerminalsReceived /= {}
          /\ ~splash.finished =>
                /\ ~splash.has_changes
                /\ splash.report = None /\ splash.sent = None
          /\ splash.finished =>
                /\ splash.has_changes <=> HasChanges(FirstReportReceived)
                /\ splash.has_changes <=>
                      \E i \in 1..N : result[i].kind /= "Unchanged"
                /\ IF splash.sent = None
                   THEN splash.report = Some(FirstReportReceived)
                   ELSE /\ splash.report = None
                        /\ splash.sent = Some(FirstReportReceived)
                        /\ splash.has_changes)
    /\ [][/\ splash.finished => splash'.finished
          /\ splash.finished => splash'.has_changes = splash.has_changes
          /\ splash.sent /= None => splash'.sent = splash.sent]_vars

(* The run has downloaded one file and left one unchanged; the splash has  *)
(* received the terminal event, is finished, flags changes and still       *)
(* holds the report                                                        *)
C34_Witness ==
    /\ splash.finished
    /\ splash.has_changes
    /\ splash.read = 3
    /\ splash.report = Some(report)
    /\ Len(report.downloaded) = 1
    /\ Len(report.unchanged) = 1
    /\ main.pc = "ui"

====
